---- MODULE Spec2Model ----
(***************************************************************************)
(* A model of the ant-farm repository.  The repository holds several       *)
(* program variants ("profiles") that share no state:                      *)
(*   sandbox  - falling-sand automaton with an active set and ants         *)
(*              (unnamed/part_003 lines 1-396, types in unnamed/part_004)  *)
(* Each behaviour of the model runs one profile, named by `profile`; the   *)
(* variables of the other profiles keep their initial value.               *)
(***************************************************************************)
EXTENDS Integers, Sequences, FiniteSets, TLC

VARIABLES
  profile,   \* which program variant this behaviour runs
  state,     \* sandbox: the SandboxState object (grid, ants, tick, activeSand, marker)
  edits,     \* sandbox: number of addSand/removeSand/marker calls made so far
  gameState, \* sim: the GameState object (world, ants, settings)
  probe,     \* sim: the last call of a pure helper with its arguments and result
  game       \* game: the GameState object of the game profile (grid, ants, tick)

vars == <<profile, state, edits, gameState, probe, game>>

\* The objects of the profiles a behaviour does not run.
Unused == [unused |-> TRUE]
sandboxVars == <<state, edits>>
simVars == <<gameState, probe>>

Min(a, b) == IF a < b THEN a ELSE b
Max(a, b) == IF a > b THEN a ELSE b
Abs(a) == IF a < 0 THEN -a ELSE a

(***************************************************************************)
(* SANDBOX PROFILE                                                         *)
(***************************************************************************)

\* Grid size of the sandbox model (160 x 120 in the source).
WORLD_WIDTH == 3
WORLD_HEIGHT == 3
\* Bounds of the explored behaviours.
MaxSand == 2
MaxTick == 3
MaxSettleTick == 12
MaxEdits == 1
MaxCalls == 3
MaxRadius == 1

\* ant.x is kept in units of 1/XU cell and ant.y in units of 1/YU cell:
\* ANT_WALK_SPEED = 0.05 = 2/40, half of it (climbing) = 1/40, a fall = 0.5 = 1/2.
XU == 40
YU == 2
ANT_WALK_SPEED == 2
maxClimbHeight == 10
DIG_COOLDOWN == 10

InGrid(x, y) == x >= 0 /\ x < WORLD_WIDTH /\ y >= 0 /\ y < WORLD_HEIGHT

sandKey(x, y) == <<x, y>>

\* activeSand is a JavaScript Set: insertion-ordered, no duplicates.
SetHas(S, k) == \E i \in 1..Len(S) : S[i] = k
SetAdd(S, k) == IF SetHas(S, k) THEN S ELSE Append(S, k)
SetDelete(S, k) == SelectSeq(S, LAMBDA e : e # k)

CellX(ant) == ant.x \div XU
CellY(ant) == ant.y \div YU

isAntAt(ants, x, y) ==
  \E i \in 1..Len(ants) : CellX(ants[i]) = x /\ CellY(ants[i]) = y

\* An emptiness test that does not look at the ants.
isEmptyIgnoringAnts(grid, x, y, ants) ==
  IF ~InGrid(x, y) THEN FALSE ELSE grid[y][x] = "Empty"

\* isEmpty(grid, x, y, ants) with the optional ants argument given
isEmptyA(grid, x, y, ants) ==
  IF ~InGrid(x, y) THEN FALSE
  ELSE IF isAntAt(ants, x, y) THEN FALSE
  ELSE grid[y][x] = "Empty"

\* An emptiness test that forgets the bounds check.
isEmptyUnbounded(grid, x, y) == IF ~InGrid(x, y) THEN TRUE ELSE grid[y][x] = "Empty"

\* isEmpty(grid, x, y) without the ants argument
isEmpty(grid, x, y) ==
  IF ~InGrid(x, y) THEN FALSE ELSE grid[y][x] = "Empty"

\* A solidity test that sees no wall beyond the grid edge.
isSolidInside(grid, x, y) ==
  InGrid(x, y) /\ (grid[y][x] = "Sand" \/ grid[y][x] = "Wall")

isSolid(grid, x, y) ==
  IF ~InGrid(x, y) THEN TRUE
  ELSE grid[y][x] = "Sand" \/ grid[y][x] = "Wall"

isDiggable(grid, x, y) ==
  IF ~InGrid(x, y) THEN FALSE ELSE grid[y][x] = "Sand"

\* A move that leaves the old coordinate in activeSand.
MoveSandKeepKey(s, x, y, nx, ny) ==
  [grid |-> [s.grid EXCEPT ![y][x] = "Empty", ![ny][nx] = "Sand"],
   activeSand |-> SetAdd(s.activeSand, sandKey(nx, ny))]

\* A sand particle leaves (x, y) for (nx, ny): the two grid writes and the
\* delete/add on activeSand.
MoveSand(s, x, y, nx, ny) ==
  [grid |-> [s.grid EXCEPT ![y][x] = "Empty", ![ny][nx] = "Sand"],
   activeSand |-> SetAdd(SetDelete(s.activeSand, sandKey(x, y)), sandKey(nx, ny))]

\* A settling rule that never retires a particle.
SettleNever(s, x, y) == s

\* A look at the cell straight below only.
hasActiveSandDirectlyBelow(s, x, y) == SetHas(s.activeSand, sandKey(x, y + 1))

hasActiveSandBelow(s, x, y) ==
  \/ SetHas(s.activeSand, sandKey(x, y + 1))
  \/ SetHas(s.activeSand, sandKey(x - 1, y + 1))
  \/ SetHas(s.activeSand, sandKey(x + 1, y + 1))

SettleSand(s, x, y) ==
  IF hasActiveSandBelow(s, x, y) THEN s
  ELSE [s EXCEPT !.activeSand = SetDelete(s.activeSand, sandKey(x, y))]

\* A slide that tests the diagonal target only, not the cell beside the particle.
updateCellCornerCut(s, x, y, ants, goLeft) ==
  LET canLeft  == isEmptyA(s.grid, x - 1, y + 1, ants)
      canRight == isEmptyA(s.grid, x + 1, y + 1, ants)
  IN  IF s.grid[y][x] # "Sand" THEN s
      ELSE IF isEmptyA(s.grid, x, y + 1, ants) THEN MoveSand(s, x, y, x, y + 1)
      ELSE IF goLeft
           THEN IF canLeft THEN MoveSand(s, x, y, x - 1, y + 1)
                ELSE IF canRight THEN MoveSand(s, x, y, x + 1, y + 1)
                ELSE SettleSand(s, x, y)
           ELSE IF canRight THEN MoveSand(s, x, y, x + 1, y + 1)
                ELSE IF canLeft THEN MoveSand(s, x, y, x - 1, y + 1)
                ELSE SettleSand(s, x, y)

\* A slide that tries the preferred side only.
updateCellPreferredOnly(s, x, y, ants, goLeft) ==
  LET canLeft  == isEmptyA(s.grid, x - 1, y + 1, ants) /\ isEmptyA(s.grid, x - 1, y, ants)
      canRight == isEmptyA(s.grid, x + 1, y + 1, ants) /\ isEmptyA(s.grid, x + 1, y, ants)
  IN  IF s.grid[y][x] # "Sand" THEN s
      ELSE IF isEmptyA(s.grid, x, y + 1, ants) THEN MoveSand(s, x, y, x, y + 1)
      ELSE IF goLeft /\ canLeft THEN MoveSand(s, x, y, x - 1, y + 1)
      ELSE IF ~goLeft /\ canRight THEN MoveSand(s, x, y, x + 1, y + 1)
      ELSE SettleSand(s, x, y)

\* updateCell(state, x, y, ants); goLeft is the outcome of Math.random() < 0.5.
\* s holds the two fields it touches: grid and activeSand.
updateCell(s, x, y, ants, goLeft) ==
  LET canLeft  == isEmptyA(s.grid, x - 1, y + 1, ants) /\ isEmptyA(s.grid, x - 1, y, ants)
      canRight == isEmptyA(s.grid, x + 1, y + 1, ants) /\ isEmptyA(s.grid, x + 1, y, ants)
  IN  IF s.grid[y][x] # "Sand" THEN s
      ELSE IF isEmptyA(s.grid, x, y + 1, ants) THEN MoveSand(s, x, y, x, y + 1)
      ELSE IF goLeft
           THEN IF canLeft THEN MoveSand(s, x, y, x - 1, y + 1)
                ELSE IF canRight THEN MoveSand(s, x, y, x + 1, y + 1)
                ELSE SettleSand(s, x, y)
           ELSE IF canRight THEN MoveSand(s, x, y, x + 1, y + 1)
                ELSE IF canLeft THEN MoveSand(s, x, y, x - 1, y + 1)
                ELSE SettleSand(s, x, y)

\* One iteration of the loop over the snapshot of activeSand in simulateStep.
ProcessKey(s, key, ants, goLeft) ==
  IF s.grid[key[2]][key[1]] # "Sand"
  THEN [s EXCEPT !.activeSand = SetDelete(s.activeSand, key)]
  ELSE updateCell(s, key[1], key[2], ants, goLeft)

\* The sand pass: every outcome of the loop over activeCells, one random
\* choice per processed particle.
RECURSIVE SandPass(_, _, _, _)
SandPass(S, activeCells, i, ants) ==
  IF i > Len(activeCells) THEN S
  ELSE SandPass({ProcessKey(s, activeCells[i], ants, gl) : s \in S, gl \in BOOLEAN},
                activeCells, i + 1, ants)

\* state.marker = null; a marker is [null |-> FALSE, x |-> .., y |-> ..].
NullMarker == [null |-> TRUE, x |-> 0, y |-> 0]

\* The marker block of walkBehavior: the ant's direction after it.
\* rToward is the outcome of Math.random() < 0.3.
MarkerDirection(grid, ant, marker, rToward) ==
  LET x == CellX(ant)
      y == CellY(ant)
  IN  IF marker.null THEN ant.direction
      ELSE LET dx == marker.x - x
               preferredDirection == IF dx > 0 THEN 1 ELSE -1
               canMoveTowardMarker ==
                 isEmpty(grid, x + preferredDirection, y) \/ isSolid(grid, x + preferredDirection, y)
           IN  IF Abs(dx) > 2 /\ ant.direction # preferredDirection
                  /\ (canMoveTowardMarker \/ rToward)
               THEN preferredDirection
               ELSE ant.direction

\* The climb loop of walkBehavior: the climbHeight it finds, 0 when canClimb
\* stays false.
RECURSIVE ClimbScan(_, _, _, _, _)
ClimbScan(grid, x, y, nextX, h) ==
  IF h > maxClimbHeight THEN 0
  ELSE IF isEmpty(grid, x, y - h) /\ isEmpty(grid, nextX, y - h) /\ isSolid(grid, nextX, y)
       THEN h
       ELSE IF isSolid(grid, x, y - h) THEN 0
            ELSE ClimbScan(grid, x, y, nextX, h + 1)

\* The move walkBehavior executes, by priority.
WalkMove(grid, x, y, nextX) ==
  LET canWalkForward == isEmpty(grid, nextX, y) /\ isSolid(grid, nextX, y + 1)
      canWalkDown == isEmpty(grid, nextX, y) /\ isEmpty(grid, nextX, y + 1)
                     /\ isSolid(grid, nextX, y + 2)
      climbHeight == ClimbScan(grid, x, y, nextX, 1)
      canWalkCeiling == isEmpty(grid, nextX, y) /\ isSolid(grid, nextX, y - 1)
                        /\ ~isSolid(grid, x, y - 1)
      canWalkWall == isEmpty(grid, x, y - 1) /\ isSolid(grid, nextX, y)
  IN  IF canWalkForward THEN "forward"
      ELSE IF canWalkDown THEN "down"
      ELSE IF climbHeight > 0 THEN "climb"
      ELSE IF canWalkCeiling THEN "ceiling"
      ELSE IF canWalkWall THEN "wall"
      ELSE "blocked"

\* walkBehavior(grid, ant, state).  r holds the outcomes of the Math.random()
\* tests: toward (< 0.3, marker), dig (< 0.3), digBelow (< 0.02), drop (< 0.01).
walkBehavior(grid, ant, marker, r) ==
  LET x == CellX(ant)
      y == CellY(ant)
      dir == MarkerDirection(grid, ant, marker, r.toward)
      nextX == x + dir
      move == WalkMove(grid, x, y, nextX)
      climbHeight == ClimbScan(grid, x, y, nextX, 1)
      a1 == [ant EXCEPT !.direction = dir]
      a2 == CASE move = "forward" -> [a1 EXCEPT !.x = @ + dir * ANT_WALK_SPEED]
              [] move = "down" -> [a1 EXCEPT !.x = @ + dir * ANT_WALK_SPEED, !.y = @ + YU]
              [] move = "climb" ->
                   IF climbHeight = 1 \/ isEmpty(grid, nextX, y - climbHeight)
                   THEN [a1 EXCEPT !.y = @ - YU, !.x = @ + dir * (ANT_WALK_SPEED \div 2)]
                   ELSE [a1 EXCEPT !.y = @ - YU]
              [] move = "ceiling" -> [a1 EXCEPT !.x = @ + dir * ANT_WALK_SPEED, !.y = @ - YU]
              [] move = "wall" -> [a1 EXCEPT !.y = @ - YU]
              [] OTHER ->
                   IF ~a1.carrySand /\ isDiggable(grid, nextX, y) /\ r.dig
                   THEN [a1 EXCEPT !.state = "digging"]
                   ELSE [a1 EXCEPT !.direction = IF dir = 1 THEN -1 ELSE 1]
      a3 == IF ~a2.carrySand /\ r.digBelow /\ isDiggable(grid, x, y + 1)
            THEN [a2 EXCEPT !.state = "digging"] ELSE a2
  IN  IF a3.carrySand /\ r.drop THEN [a3 EXCEPT !.state = "dropping"] ELSE a3

\* The targets of digBehavior and dropBehavior, in the order they are tried.
\* A dig that loads the ant without taking the cell out of the grid.
digWithoutRemoving(s) == [s EXCEPT !.ant.carrySand = TRUE, !.ant.state = "walking"]

\* A drop order that tries the cell behind the ant first.
dropTargetsBehindFirst(ant) == << <<-ant.direction, 0>>, <<0, -1>>, <<ant.direction, 0>> >>

digTargets(ant) == << <<ant.direction, 0>>, <<ant.direction, 1>>, <<0, 1>> >>
dropTargets(ant) == << <<ant.direction, 0>>, <<0, -1>>, <<-ant.direction, 0>> >>

\* digBehavior(state, ant); s is [grid, activeSand, ant].
digBehavior(s) ==
  LET ant == s.ant
      x == CellX(ant)
      y == CellY(ant)
      T == digTargets(ant)
      hits == {i \in 1..Len(T) : isDiggable(s.grid, x + T[i][1], y + T[i][2])}
  IN  IF ant.digCooldown > 0 THEN s
      ELSE IF hits = {} THEN [s EXCEPT !.ant.state = "walking"]
      ELSE LET i == CHOOSE j \in hits : \A k \in hits : j <= k
               digX == x + T[i][1]
               digY == y + T[i][2]
           IN  [grid |-> [s.grid EXCEPT ![digY][digX] = "Empty"],
                activeSand |-> SetDelete(s.activeSand, sandKey(digX, digY)),
                ant |-> [ant EXCEPT !.carrySand = TRUE, !.digCooldown = DIG_COOLDOWN,
                                    !.state = "walking"]]

\* A drop that throws the load away when it finds no Empty cell.
dropOrDiscard(s) ==
  LET ant == s.ant
      x == CellX(ant)
      y == CellY(ant)
      T == dropTargets(ant)
      hits == {i \in 1..Len(T) : isEmpty(s.grid, x + T[i][1], y + T[i][2])}
  IN  IF ~ant.carrySand THEN [s EXCEPT !.ant.state = "walking"]
      ELSE IF hits = {} THEN [s EXCEPT !.ant.state = "walking", !.ant.carrySand = FALSE]
      ELSE LET i == CHOOSE j \in hits : \A k \in hits : j <= k
           IN  [grid |-> [s.grid EXCEPT ![y + T[i][2]][x + T[i][1]] = "Sand"],
                activeSand |-> SetAdd(s.activeSand, sandKey(x + T[i][1], y + T[i][2])),
                ant |-> [ant EXCEPT !.carrySand = FALSE, !.state = "walking"]]

\* A drop that does not mark the dropped sand as active.
dropWithoutActivating(s) ==
  LET ant == s.ant
      x == CellX(ant)
      y == CellY(ant)
      T == dropTargets(ant)
      hits == {i \in 1..Len(T) : isEmpty(s.grid, x + T[i][1], y + T[i][2])}
  IN  IF ~ant.carrySand \/ hits = {} THEN [s EXCEPT !.ant.state = "walking"]
      ELSE LET i == CHOOSE j \in hits : \A k \in hits : j <= k
           IN  [grid |-> [s.grid EXCEPT ![y + T[i][2]][x + T[i][1]] = "Sand"],
                activeSand |-> s.activeSand,
                ant |-> [ant EXCEPT !.carrySand = FALSE, !.state = "walking"]]

\* dropBehavior(state, ant); s is [grid, activeSand, ant].
dropBehavior(s) ==
  LET ant == s.ant
      x == CellX(ant)
      y == CellY(ant)
      T == dropTargets(ant)
      hits == {i \in 1..Len(T) : isEmpty(s.grid, x + T[i][1], y + T[i][2])}
  IN  IF ~ant.carrySand THEN [s EXCEPT !.ant.state = "walking"]
      ELSE IF hits = {} THEN [s EXCEPT !.ant.state = "walking"]
      ELSE LET i == CHOOSE j \in hits : \A k \in hits : j <= k
               dropX == x + T[i][1]
               dropY == y + T[i][2]
           IN  [grid |-> [s.grid EXCEPT ![dropY][dropX] = "Sand"],
                activeSand |-> SetAdd(s.activeSand, sandKey(dropX, dropY)),
                ant |-> [ant EXCEPT !.carrySand = FALSE, !.state = "walking"]]

\* updateAnt(state, ant) of the sandbox; s is [grid, activeSand, ant].
updateAnt(s, marker, r) ==
  LET x == CellX(s.ant)
      y == CellY(s.ant)
      cooled == IF s.ant.digCooldown > 0
                THEN [s EXCEPT !.ant.digCooldown = @ - 1] ELSE s
      onGround == isSolid(s.grid, x, y + 1)
      onCeiling == isSolid(s.grid, x, y - 1)
      onWallLeft == isSolid(s.grid, x - 1, y)
      onWallRight == isSolid(s.grid, x + 1, y)
      isAttached == onGround \/ onCeiling \/ onWallLeft \/ onWallRight
  IN  IF ~isAttached THEN [cooled EXCEPT !.ant.y = @ + YU \div 2]
      ELSE CASE cooled.ant.state = "walking" ->
                  [cooled EXCEPT !.ant = walkBehavior(cooled.grid, cooled.ant, marker, r)]
             [] cooled.ant.state = "digging" -> digBehavior(cooled)
             [] cooled.ant.state = "dropping" -> dropBehavior(cooled)

\* The outcomes of the Math.random() calls walkBehavior can make for this ant:
\* the || and && of the source skip a call whose left operand decides.
RandomOutcomes(ant, marker) ==
  [toward : IF marker.null THEN {FALSE} ELSE BOOLEAN,
   dig : IF ant.carrySand THEN {FALSE} ELSE BOOLEAN,
   digBelow : IF ant.carrySand THEN {FALSE} ELSE BOOLEAN,
   drop : IF ant.carrySand THEN BOOLEAN ELSE {FALSE}]

\* The loop over ants in simulateStep: S is a set of [grid, activeSand, ants].
RECURSIVE AntPass(_, _, _)
AntPass(S, i, marker) ==
  IF \A s \in S : i > Len(s.ants) THEN S
  ELSE AntPass(UNION { { LET u == updateAnt([grid |-> s.grid, activeSand |-> s.activeSand,
                                              ant |-> s.ants[i]], marker, r)
                         IN  [grid |-> u.grid, activeSand |-> u.activeSand,
                              ants |-> [s.ants EXCEPT ![i] = u.ant]]
                         : r \in RandomOutcomes(s.ants[i], marker) } : s \in S },
               i + 1, marker)

\* A step that consumes the marker.
simulateStepClearingMarker(st) ==
  LET afterSand == SandPass({[grid |-> st.grid, activeSand |-> st.activeSand]},
                            st.activeSand, 1, st.ants)
      afterAnts == AntPass({[grid |-> s.grid, activeSand |-> s.activeSand, ants |-> st.ants]
                             : s \in afterSand}, 1, st.marker)
  IN  {[grid |-> s.grid, ants |-> s.ants, tick |-> st.tick + 1,
        activeSand |-> s.activeSand, marker |-> NullMarker] : s \in afterAnts}

\* simulateStep(state) of the sandbox: the states it can leave behind.
simulateStep(st) ==
  LET afterSand == SandPass({[grid |-> st.grid, activeSand |-> st.activeSand]},
                            st.activeSand, 1, st.ants)
      afterAnts == AntPass({[grid |-> s.grid, activeSand |-> s.activeSand, ants |-> st.ants]
                             : s \in afterSand}, 1, st.marker)
  IN  {[grid |-> s.grid, ants |-> s.ants, tick |-> st.tick + 1,
        activeSand |-> s.activeSand, marker |-> st.marker] : s \in afterAnts}

\* The offsets of the whole square around the centre, the disc test left out.
SquareOffsets(radius) ==
  [i \in 1..((2 * radius + 1) * (2 * radius + 1)) |->
     <<((i - 1) % (2 * radius + 1)) - radius, ((i - 1) \div (2 * radius + 1)) - radius>>]

\* The (dx, dy) offsets the loops of addSand and removeSand visit, in loop
\* order (dy outer, dx inner), kept when inside the disc.
DiscOffsets(radius) ==
  LET n == 2 * radius + 1
      all == [i \in 1..(n * n) |-> <<((i - 1) % n) - radius, ((i - 1) \div n) - radius>>]
  IN  SelectSeq(all, LAMBDA d : d[1] * d[1] + d[2] * d[2] <= radius * radius)

RECURSIVE addSandLoop(_, _, _, _, _)
addSandLoop(s, x, y, offs, i) ==
  IF i > Len(offs) THEN s
  ELSE LET px == x + offs[i][1]
           py == y + offs[i][2]
       IN  IF InGrid(px, py) /\ s.grid[py][px] = "Empty"
           THEN addSandLoop([grid |-> [s.grid EXCEPT ![py][px] = "Sand"],
                             activeSand |-> SetAdd(s.activeSand, sandKey(px, py))],
                            x, y, offs, i + 1)
           ELSE addSandLoop(s, x, y, offs, i + 1)

\* An addSand that fills every cell of the disc that is not Sand yet.
addSandOverWalls(st, x, y, radius) ==
  [st EXCEPT !.grid = [py \in 0..(WORLD_HEIGHT - 1) |-> [px \in 0..(WORLD_WIDTH - 1) |->
                         IF (px - x) * (px - x) + (py - y) * (py - y) <= radius * radius
                         THEN "Sand" ELSE st.grid[py][px]]]]

\* addSand(state, x, y, radius)
addSand(st, x, y, radius) ==
  LET s == addSandLoop([grid |-> st.grid, activeSand |-> st.activeSand], x, y,
                       DiscOffsets(radius), 1)
  IN  [st EXCEPT !.grid = s.grid, !.activeSand = s.activeSand]

RECURSIVE removeSandLoop(_, _, _, _, _)
removeSandLoop(s, x, y, offs, i) ==
  IF i > Len(offs) THEN s
  ELSE LET px == x + offs[i][1]
           py == y + offs[i][2]
       IN  IF InGrid(px, py) /\ s.grid[py][px] = "Sand"
           THEN removeSandLoop([grid |-> [s.grid EXCEPT ![py][px] = "Empty"],
                                activeSand |-> SetDelete(s.activeSand, sandKey(px, py))],
                               x, y, offs, i + 1)
           ELSE removeSandLoop(s, x, y, offs, i + 1)

\* removeSand(state, x, y, radius)
removeSand(st, x, y, radius) ==
  LET s == removeSandLoop([grid |-> st.grid, activeSand |-> st.activeSand], x, y,
                          DiscOffsets(radius), 1)
  IN  [st EXCEPT !.grid = s.grid, !.activeSand = s.activeSand]

\* The marker branch of applyTool in the Sandbox component.
applyMarkerTool(st, x, y) ==
  IF ~st.marker.null /\ Abs(st.marker.x - x) < 5 /\ Abs(st.marker.y - y) < 5
  THEN [st EXCEPT !.marker = NullMarker]
  ELSE [st EXCEPT !.marker = [null |-> FALSE, x |-> x, y |-> y]]

\* createAnt(x, y), with the random direction given
createAnt(x, y, direction) ==
  [x |-> x, y |-> y, direction |-> direction, carrySand |-> FALSE,
   state |-> "walking", digCooldown |-> 0]

\* createEmptyGrid()
createEmptyGrid == [y \in 0..(WORLD_HEIGHT - 1) |-> [x \in 0..(WORLD_WIDTH - 1) |-> "Empty"]]

AllCells == {<<x, y>> : x \in 0..(WORLD_WIDTH - 1), y \in 0..(WORLD_HEIGHT - 1)}

\* The keys of a set of cells in the order createFilledSandbox adds them
\* (rows top to bottom, each row left to right).
RECURSIVE RowMajor(_, _)
RowMajor(cells, i) ==
  IF i >= WORLD_WIDTH * WORLD_HEIGHT THEN <<>>
  ELSE LET k == <<i % WORLD_WIDTH, i \div WORLD_WIDTH>>
       IN  IF k \in cells THEN <<k>> \o RowMajor(cells, i + 1) ELSE RowMajor(cells, i + 1)

\* Container walls: none (the grid edge is the wall) or a bottom wall row.
WallLayouts == {{}, {<<x, WORLD_HEIGHT - 1>> : x \in 0..(WORLD_WIDTH - 1)}}

\* A sandbox as createSandbox/createFilledSandbox leave it: walls, sand cells
\* all active, no marker.
SandboxWith(walls, sand, ants) ==
  [grid |-> [y \in 0..(WORLD_HEIGHT - 1) |-> [x \in 0..(WORLD_WIDTH - 1) |->
               IF <<x, y>> \in walls THEN "Wall"
               ELSE IF <<x, y>> \in sand THEN "Sand" ELSE "Empty"]],
   ants |-> ants, tick |-> 0, activeSand |-> RowMajor(sand, 0), marker |-> NullMarker]

SandChoices(walls) == {s \in SUBSET (AllCells \ walls) : Cardinality(s) <= MaxSand}

\* An ant that has walked to the edge of some empty cell and is about to
\* cross into the next one, possibly carrying dug sand.
AntChoices(walls, sand) ==
  {<<>>} \cup
  { <<[createAnt(c[1] * XU + (IF d = 1 THEN XU - 1 ELSE 0), c[2] * YU, d)
        EXCEPT !.carrySand = cs]>> :
      c \in AllCells \ (walls \cup sand), d \in {-1, 1}, cs \in BOOLEAN }

\* Sand filling the bottom rows of the container, as createFilledSandbox
\* leaves it when every cell of the fill region is drawn.
LayerChoices(walls) ==
  LET ground == IF walls = {} THEN WORLD_HEIGHT - 1 ELSE WORLD_HEIGHT - 2
  IN  { {<<c, ground - k>> : c \in 0..(WORLD_WIDTH - 1), k \in 0..(h - 1)} :
          h \in 0..Min(MaxSand, ground + 1) }

\* The runs explored: "sandbox" is the simulation left alone, "edit" the
\* simulation with the user's tools, "sand" a sandbox without ants left to settle.
InitSandbox ==
  /\ profile = "sandbox"
  /\ edits = 0
  /\ gameState = Unused /\ probe = Unused /\ game = Unused
  /\ \E walls \in WallLayouts : \E sand \in SandChoices(walls) :
       \E ants \in AntChoices(walls, sand) : state = SandboxWith(walls, sand, ants)

InitSandboxEdit ==
  /\ profile = "edit"
  /\ edits = 0
  /\ gameState = Unused /\ probe = Unused /\ game = Unused
  /\ \E walls \in WallLayouts : \E sand \in LayerChoices(walls) :
       \E ants \in {<<>>, <<[createAnt(XU - 1, 0, 1) EXCEPT !.carrySand = TRUE]>>} :
         state = SandboxWith(walls, sand, IF <<0, 0>> \in sand THEN <<>> ELSE ants)

InitSand ==
  /\ profile = "sand"
  /\ edits = 0
  /\ gameState = Unused /\ probe = Unused /\ game = Unused
  /\ \E walls \in WallLayouts : \E sand \in SandChoices(walls) :
       state = SandboxWith(walls, sand, <<>>)

TickCap == IF profile = "sand" THEN MaxSettleTick ELSE MaxTick

SimulateStep ==
  /\ profile \in {"sandbox", "edit", "sand"}
  /\ state.tick < TickCap
  /\ state' \in simulateStep(state)
  /\ UNCHANGED <<profile, edits, simVars, game>>

\* Where the user clicks: the middle of the grid, the bottom-left cell, and
\* a point outside the canvas.
EditCentres == {<<1, 1>>, <<0, WORLD_HEIGHT - 1>>, <<-1, -1>>}

AddSand ==
  /\ profile = "edit"
  /\ edits < MaxEdits
  /\ \E c \in EditCentres, radius \in {0, MaxRadius} :
       state' = addSand(state, c[1], c[2], radius)
  /\ edits' = edits + 1
  /\ UNCHANGED <<profile, simVars, game>>

RemoveSand ==
  /\ profile = "edit"
  /\ edits < MaxEdits
  /\ \E c \in EditCentres, radius \in {0, MaxRadius} :
       state' = removeSand(state, c[1], c[2], radius)
  /\ edits' = edits + 1
  /\ UNCHANGED <<profile, simVars, game>>

MarkerClicks == {<<-3, 0>>, <<WORLD_WIDTH + 2, 0>>}

ApplyMarkerTool ==
  /\ profile = "edit"
  /\ edits < MaxEdits
  /\ \E c \in MarkerClicks : state' = applyMarkerTool(state, c[1], c[2])
  /\ edits' = edits + 1
  /\ UNCHANGED <<profile, simVars, game>>

SpecSandbox == InitSandbox /\ [][SimulateStep]_vars

NextSandboxEdit == SimulateStep \/ AddSand \/ RemoveSand \/ ApplyMarkerTool

SpecSandboxEdit == InitSandboxEdit /\ [][NextSandboxEdit]_vars

SpecSand == InitSand /\ [][SimulateStep]_vars /\ WF_vars(SimulateStep)

\* ---------------------------------------------------------------------------
\* The full-scan automaton (no ants): one sweep over the whole grid per tick.

\* updateCell(grid, x, y) of the full-scan automaton.
fullScanUpdateCell(grid, x, y, goLeft) ==
  IF grid[y][x] # "Sand" THEN grid
  ELSE IF isEmpty(grid, x, y + 1)
  THEN [grid EXCEPT ![y][x] = "Empty", ![y + 1][x] = "Sand"]
  ELSE LET canLeft == isEmpty(grid, x - 1, y + 1) /\ isEmpty(grid, x - 1, y)
           canRight == isEmpty(grid, x + 1, y + 1) /\ isEmpty(grid, x + 1, y)
           toLeft == [grid EXCEPT ![y][x] = "Empty", ![y + 1][x - 1] = "Sand"]
           toRight == [grid EXCEPT ![y][x] = "Empty", ![y + 1][x + 1] = "Sand"]
       IN  IF goLeft
           THEN (IF canLeft THEN toLeft ELSE IF canRight THEN toRight ELSE grid)
           ELSE (IF canRight THEN toRight ELSE IF canLeft THEN toLeft ELSE grid)

\* A sweep that visits the rows from the top down.
SweepOrderTopDown(t) ==
  [i \in 1..(WORLD_WIDTH * (WORLD_HEIGHT - 1)) |->
     LET row == (i - 1) \div WORLD_WIDTH
         col == (i - 1) % WORLD_WIDTH
     IN  <<IF t % 2 = 0 THEN col ELSE WORLD_WIDTH - 1 - col, row>>]

\* The cells in the order the sweep of tick t visits them: rows from
\* WORLD_HEIGHT - 2 up to 0, columns left to right on even ticks.
SweepOrder(t) ==
  [i \in 1..(WORLD_WIDTH * (WORLD_HEIGHT - 1)) |->
     LET row == WORLD_HEIGHT - 2 - ((i - 1) \div WORLD_WIDTH)
         col == (i - 1) % WORLD_WIDTH
     IN  <<IF t % 2 = 0 THEN col ELSE WORLD_WIDTH - 1 - col, row>>]

RECURSIVE fullScanSweep(_, _, _)
fullScanSweep(G, order, i) ==
  IF i > Len(order) THEN G
  ELSE fullScanSweep({fullScanUpdateCell(g, order[i][1], order[i][2], gl) :
                        g \in G, gl \in BOOLEAN}, order, i + 1)

\* simulateStep(state) of the full-scan automaton: the grids it can leave.
fullScanSimulateStep(grid, tick) == fullScanSweep({grid}, SweepOrder(tick + 1), 1)

\* ---------------------------------------------------------------------------
\* Properties of the sandbox.

SandCells(st) == {c \in AllCells : st.grid[c[2]][c[1]] = "Sand"}
CarryingAnts(st) == {i \in 1..Len(st.ants) : st.ants[i].carrySand}
Mass(st) == Cardinality(SandCells(st)) + Cardinality(CarryingAnts(st))
AntsInGrid(st) == \A i \in 1..Len(st.ants) : InGrid(CellX(st.ants[i]), CellY(st.ants[i]))

\* C1: a simulateStep of the sandbox leaves the number of Sand cells plus the
\* number of ants carrying sand unchanged.
C1_SandConserved == [][SimulateStep => Mass(state') = Mass(state)]_vars

\* An ant has dug a cell and now carries it.
C1_Witness ==
  /\ profile = "sandbox"
  /\ \E i \in 1..Len(state.ants) :
       state.ants[i].carrySand /\ state.ants[i].digCooldown > 0

\* C4: an ant whose cell is inside the grid before a simulateStep has its
\* cell inside the grid after it.
C4_AntsStayInGrid == [][SimulateStep => (AntsInGrid(state) => AntsInGrid(state'))]_vars

\* An ant has climbed the right edge of the world up to the top row.
C4_Witness ==
  /\ profile = "sandbox"
  /\ state.tick = MaxTick
  /\ \E i \in 1..Len(state.ants) :
       /\ CellX(state.ants[i]) = WORLD_WIDTH - 1
       /\ CellY(state.ants[i]) = 0
       /\ state.ants[i].direction = 1
       /\ state.ants[i].x % XU = XU - 1

\* C8: without ants and edits, and with every Sand cell active at the start,
\* activeSand becomes empty, and once it is empty the grid stops changing.
C8_SandSettles ==
  /\ <>(state.activeSand = <<>>)
  /\ [][state.activeSand = <<>> => state'.grid = state.grid /\ state'.activeSand = <<>>]_vars

\* A pile of MaxSand particles has come to rest after falling.
C8_Witness ==
  /\ profile = "sand"
  /\ state.tick > 1
  /\ state.activeSand = <<>>
  /\ Cardinality(SandCells(state)) = MaxSand
  /\ \A c \in SandCells(state) : c[2] >= WORLD_HEIGHT - 2

\* C9: whenever activeSand is empty, the grid is a fixed point of the
\* full-scan simulateStep (no Sand cell can still fall or slide).
C9_ActiveSetMatchesFullScan ==
  state.activeSand = <<>> => fullScanSimulateStep(state.grid, state.tick) = {state.grid}

\* ---------------------------------------------------------------------------
\* Sim profiles: the world grid (src/src/sim/world.ts, gameState.ts).
\* Positions are counted in 1/SU of a cell.

SOIL_START_Y == 1
SU == 100

Null == [null |-> TRUE]

\* An index computed with the coordinates exchanged.
getCellIndexSwapped(x, y, width) == x * width + y

getCellIndex(x, y, width) == y * width + x

isInBounds(world, x, y) == x >= 0 /\ x < world.width /\ y >= 0 /\ y < world.height

getCell(world, x, y) ==
  IF ~isInBounds(world, x, y) THEN Null
  ELSE world.cells[getCellIndex(x, y, world.width)]

setCell(world, x, y, cell) ==
  IF isInBounds(world, x, y)
  THEN [world EXCEPT !.cells[getCellIndex(x, y, world.width)] = cell]
  ELSE world

isSolidCell(world, x, y) ==
  LET cell == getCell(world, x, y)
  IN  cell # Null /\ (cell.type = "dirt" \/ cell.type = "stone")

setCellToAir(world, x, y) ==
  IF getCell(world, x, y) = Null THEN world
  ELSE [world EXCEPT !.cells[getCellIndex(x, y, world.width)].type = "air"]

setCellToDirt(world, x, y) ==
  IF getCell(world, x, y) = Null THEN world
  ELSE [world EXCEPT !.cells[getCellIndex(x, y, world.width)].type = "dirt"]

\* The world of createInitialGameState(): air above SOIL_START_Y, dirt below.
createInitialWorld ==
  [width |-> WORLD_WIDTH, height |-> WORLD_HEIGHT,
   cells |-> [i \in 0..(WORLD_WIDTH * WORLD_HEIGHT - 1) |->
                [type |-> IF i \div WORLD_WIDTH < SOIL_START_Y THEN "air" ELSE "dirt",
                 pheromoneFood |-> 0, pheromoneHome |-> 0]]]

\* The initial world, possibly with one cell dug out, filled in or turned to stone.
WorldChoices ==
  {createInitialWorld} \cup
  { [createInitialWorld EXCEPT !.cells[i].type = ty] :
      i \in 0..(WORLD_WIDTH * WORLD_HEIGHT - 1), ty \in {"air", "dirt", "stone"} }

GameStateWith(world, ants, simSpeed) ==
  [world |-> world, ants |-> ants, settings |-> [simSpeed |-> simSpeed]]

InitWorld ==
  /\ profile = "world"
  /\ state = Unused /\ edits = 0 /\ game = Unused
  /\ probe = Unused
  /\ \E world \in WorldChoices : gameState = GameStateWith(world, <<>>, 1)

\* A caller asks whether the cell (x, y) is solid.
IsSolidCell ==
  /\ profile = "world"
  /\ \E x \in -1..WORLD_WIDTH, y \in -1..WORLD_HEIGHT :
       probe' = [op |-> "isSolidCell", x |-> x, y |-> y,
                 result |-> isSolidCell(gameState.world, x, y)]
  /\ UNCHANGED <<profile, sandboxVars, gameState, game>>

SpecWorld == InitWorld /\ [][IsSolidCell]_vars

\* C10: for every coordinate outside the grid, isSolidCell returns true.
C10_OutOfBoundsIsSolid ==
  (profile = "world" /\ probe # Unused /\ probe.op = "isSolidCell"
     /\ ~isInBounds(gameState.world, probe.x, probe.y))
  => probe.result = TRUE

\* ---------------------------------------------------------------------------
\* Sim profiles: the pheromone fields (src/src/sim/persistence.ts, lines 107-224).
\* A field value is counted in 1/ONE; times and rates are fractions <<n, d>>.

PherRes == 4
ONE == 8 * PherRes

DECAY_RATE == <<1, 2>>
DIFFUSION_FACTOR == <<1, 5>>

\* A decay that takes nothing away.
decayNothing(dt) == 0

\* DECAY_RATE * dt in field units.
decayAmount(dt) == (ONE * DECAY_RATE[1] * dt[1]) \div (DECAY_RATE[2] * dt[2])

\* The quotient n / d rounded to the nearest representable value, ties to even:
\* what storing into a Float32Array keeps.
fround(n, d) ==
  LET q == (2 * n + d) \div (2 * d)
  IN  IF (2 * n + d) % (2 * d) = 0 /\ q % 2 # 0 THEN q - 1 ELSE q

\* The value of a field after the decay loop, floored at 0.
decayed(v, dt) == IF v > decayAmount(dt) THEN v - decayAmount(dt) ELSE 0

\* The single element of a one-element set (binds a computed value once).
Only(S) == CHOOSE r \in S : TRUE

\* The diffused value of one field at cell (x, y), as stored in the scratch
\* array: the decayed cell moved toward the mean of itself and its in-bounds
\* neighbours, all read after the decay loop and before the write-back.
diffused(world, x, y, field, dt) ==
  LET value(dx, dy) == IF isInBounds(world, x + dx, y + dy)
                       THEN decayed(getCell(world, x + dx, y + dy)[field], dt) ELSE 0
      counted(dx, dy) == IF isInBounds(world, x + dx, y + dy) THEN 1 ELSE 0
  IN  Only({ \* cell + (sum / count - cell) * DIFFUSION_FACTOR * dt
             fround(cell * (count * DIFFUSION_FACTOR[2] * dt[2])
                      + (sum - count * cell) * DIFFUSION_FACTOR[1] * dt[1],
                    count * DIFFUSION_FACTOR[2] * dt[2]) :
             cell \in {decayed(world.cells[y * WORLD_WIDTH + x][field], dt)},
             sum \in {decayed(world.cells[y * WORLD_WIDTH + x][field], dt)
                        + value(1, 0) + value(-1, 0) + value(0, 1) + value(0, -1)},
             count \in {1 + counted(1, 0) + counted(-1, 0) + counted(0, 1) + counted(0, -1)} })

\* Math.max(0, Math.min(1, v)) of the write-back.
clampUnit(v) == Only({Max(0, Min(ONE, w)) : w \in {v}})

\* A diffusion without scratch arrays: the cells are rewritten one after the
\* other, in row-major order, each from the values its neighbours hold by then.
RECURSIVE sweepInPlace(_, _, _)
sweepInPlace(world, dt, i) ==
  IF i >= WORLD_WIDTH * WORLD_HEIGHT THEN world
  ELSE LET x == i % WORLD_WIDTH
           y == i \div WORLD_WIDTH
           near == {p \in { <<x + 1, y>>, <<x - 1, y>>, <<x, y + 1>>, <<x, y - 1>> } :
                      isInBounds(world, p[1], p[2])}
           at(p, f) == getCell(world, p[1], p[2])[f]
           total(f) == (IF <<x + 1, y>> \in near THEN at(<<x + 1, y>>, f) ELSE 0)
                       + (IF <<x - 1, y>> \in near THEN at(<<x - 1, y>>, f) ELSE 0)
                       + (IF <<x, y + 1>> \in near THEN at(<<x, y + 1>>, f) ELSE 0)
                       + (IF <<x, y - 1>> \in near THEN at(<<x, y - 1>>, f) ELSE 0)
           count == 1 + Cardinality(near)
           mixed(f) == clampUnit(fround(
                         world.cells[i][f] * (count * DIFFUSION_FACTOR[2] * dt[2])
                           + (total(f) + world.cells[i][f] - count * world.cells[i][f])
                               * DIFFUSION_FACTOR[1] * dt[1],
                         count * DIFFUSION_FACTOR[2] * dt[2]))
       IN  sweepInPlace([world EXCEPT !.cells[i].pheromoneFood = mixed("pheromoneFood"),
                                      !.cells[i].pheromoneHome = mixed("pheromoneHome")],
                        dt, i + 1)

updatePheromonesInPlace(world, dt) ==
  sweepInPlace([world EXCEPT !.cells =
                  [i \in DOMAIN world.cells |->
                     [world.cells[i] EXCEPT !.pheromoneFood = decayed(@, dt),
                                            !.pheromoneHome = decayed(@, dt)]]],
               dt, 0)

\* updatePheromones(gameState, dt), on the world: decay loop, diffusion loop
\* into the scratch arrays, clamped write-back.
updatePheromones(world, dt) ==
  [world EXCEPT !.cells =
     [i \in DOMAIN world.cells |->
        IF i < WORLD_WIDTH * WORLD_HEIGHT
        THEN [world.cells[i] EXCEPT
                !.pheromoneFood =
                   clampUnit(diffused(world, i % WORLD_WIDTH, i \div WORLD_WIDTH,
                                      "pheromoneFood", dt)),
                !.pheromoneHome =
                   clampUnit(diffused(world, i % WORLD_WIDTH, i \div WORLD_WIDTH,
                                      "pheromoneHome", dt))]
        ELSE [world.cells[i] EXCEPT
                !.pheromoneFood = clampUnit(decayed(@, dt)),
                !.pheromoneHome = clampUnit(decayed(@, dt))]]]

\* A deposit that adds without the cap at 1.
depositUncapped(world, x, y, amount) ==
  LET cellX == x \div SU
      cellY == y \div SU
  IN  IF getCell(world, cellX, cellY) = Null THEN world
      ELSE [world EXCEPT !.cells[getCellIndex(cellX, cellY, world.width)].pheromoneFood =
              @ + amount]

\* depositFoodPheromone(gameState, x, y, amount), on the world
depositFoodPheromone(world, x, y, amount) ==
  LET cellX == x \div SU
      cellY == y \div SU
  IN  IF getCell(world, cellX, cellY) = Null THEN world
      ELSE [world EXCEPT !.cells[getCellIndex(cellX, cellY, world.width)].pheromoneFood =
              Min(ONE, @ + amount)]

\* depositHomePheromone(gameState, x, y, amount), on the world
depositHomePheromone(world, x, y, amount) ==
  LET cellX == x \div SU
      cellY == y \div SU
  IN  IF getCell(world, cellX, cellY) = Null THEN world
      ELSE [world EXCEPT !.cells[getCellIndex(cellX, cellY, world.width)].pheromoneHome =
              Min(ONE, @ + amount)]

\* Frame times the host supplies: none, a quarter second, one second, and a
\* stall of two and a half seconds.
DtChoices == {<<0, 1>>, <<1, 4>>, <<1, 1>>, <<5, 2>>}

\* Amounts an ant deposits: nothing, half, more than a cell holds.
AmountChoices == {0, ONE \div 2, ONE + 1}

\* Where ants deposit: the first cell, the far end of the last cell, and a
\* point left of the world.
DepositPoints == {<<0, 0>>, <<WORLD_WIDTH * SU - 1, WORLD_HEIGHT * SU - 1>>, <<-1, 0>>}

\* Fields in [0, 1]: empty, or one of the given cells holding some value in
\* one field.
FieldChoices(cells) ==
  {createInitialWorld} \cup
  { [createInitialWorld EXCEPT !.cells[i][f] = v] :
      i \in cells, f \in {"pheromoneFood", "pheromoneHome"},
      v \in {1, ONE \div 4, ONE \div 2, ONE - 1, ONE} }

InitPher ==
  /\ profile = "pher"
  /\ state = Unused /\ edits = 0 /\ game = Unused
  /\ probe = Unused
  /\ \E world \in FieldChoices({WORLD_WIDTH + 1}) : gameState = GameStateWith(world, <<>>, 1)

InitDecay ==
  /\ profile = "decay"
  /\ state = Unused /\ edits = 0 /\ game = Unused
  /\ probe = Unused
  /\ \E world \in FieldChoices(0..(WORLD_WIDTH * WORLD_HEIGHT - 1)) :
       gameState = GameStateWith(world, <<>>, 1)

FieldValues == UNION { {gameState.world.cells[i].pheromoneFood, gameState.world.cells[i].pheromoneHome} :
                        i \in DOMAIN gameState.world.cells }
SetMax(S) == CHOOSE e \in S : \A o \in S : o <= e
FieldMax == SetMax(FieldValues)
AllZero == FieldValues = {0}

\* The host calls updatePheromones; a run left to decay gets positive dt only.
\* probe keeps the dt of the call and the largest field value before it.
UpdatePheromones ==
  /\ profile \in {"pher", "decay"}
  /\ profile = "pher" => edits < MaxCalls
  /\ \E dt \in DtChoices :
       /\ profile = "decay" => dt[1] > 0
       /\ gameState' = [gameState EXCEPT !.world = updatePheromones(@, dt)]
       /\ probe' = [op |-> "updatePheromones", dt |-> dt, maxBefore |-> FieldMax]
  /\ edits' = IF profile = "pher" THEN edits + 1 ELSE edits
  /\ UNCHANGED <<profile, state, game>>

DepositFoodPheromone ==
  /\ profile = "pher"
  /\ edits < MaxCalls
  /\ \E p \in DepositPoints, amount \in AmountChoices :
       gameState' = [gameState EXCEPT !.world = depositFoodPheromone(@, p[1], p[2], amount)]
  /\ probe' = Unused
  /\ edits' = edits + 1
  /\ UNCHANGED <<profile, state, game>>

DepositHomePheromone ==
  /\ profile = "pher"
  /\ edits < MaxCalls
  /\ \E p \in DepositPoints, amount \in AmountChoices :
       gameState' = [gameState EXCEPT !.world = depositHomePheromone(@, p[1], p[2], amount)]
  /\ probe' = Unused
  /\ edits' = edits + 1
  /\ UNCHANGED <<profile, state, game>>

NextPher == UpdatePheromones \/ DepositFoodPheromone \/ DepositHomePheromone

SpecPher == InitPher /\ [][NextPher]_vars

SpecDecay == InitDecay /\ [][UpdatePheromones]_vars /\ WF_vars(UpdatePheromones)


\* C6: whatever the interleaving of updatePheromones and deposits, every
\* pheromoneFood and pheromoneHome value stays in [0, 1].
C6_FieldsInUnitRange ==
  profile = "pher" => \A v \in FieldValues : 0 <= v /\ v <= ONE

\* A deposit has filled a cell to 1 and diffusion has since spread the field
\* to another cell.
C6_Witness ==
  /\ profile = "pher"
  /\ edits = MaxCalls
  /\ Cardinality({i \in DOMAIN gameState.world.cells :
                    gameState.world.cells[i].pheromoneFood > 0}) >= 2
  /\ \E i \in DOMAIN gameState.world.cells : gameState.world.cells[i].pheromoneHome = ONE

\* C7: with no deposits and dt > 0, the fields reach all-zero; each call lowers
\* the largest value by at least DECAY_RATE * dt until it is 0; all-zero stays.
C7_DecaysToZero ==
  /\ <>AllZero
  /\ [](probe # Unused =>
         /\ FieldMax <= Max(0, probe.maxBefore - decayAmount(probe.dt))
         /\ (probe.maxBefore = 0 => AllZero))

\* A decaying field that diffusion has spread over more than one cell.
C7_Witness ==
  /\ profile = "decay"
  /\ \E f \in {"pheromoneFood", "pheromoneHome"} :
       Cardinality({i \in DOMAIN gameState.world.cells : gameState.world.cells[i][f] > 0}) >= 2

\* ---------------------------------------------------------------------------
\* Sim, state-machine profile (src/src/sim/simulateStep.ts, lines 422-652):
\* ants cycle through idleSurface, diggingDown, carryingUp, carryingSurface.

\* rate * dt as a distance in position units, for a rate in cells per second.
Distance(rate, dt) == (rate * SU * dt[1]) \div dt[2]

clamp(value, lo, hi) == Max(lo, Min(hi, value))

RECURSIVE findSurfaceDropYFrom(_, _, _)
findSurfaceDropYFrom(world, x, y) ==
  IF y < 0 THEN -1
  ELSE IF getCell(world, x, y) # Null /\ getCell(world, x, y).type = "air" THEN y
  ELSE findSurfaceDropYFrom(world, x, y - 1)

findSurfaceDropY(world, x) == findSurfaceDropYFrom(world, x, SOIL_START_Y - 1)

\* The update functions work on s = [world, ant]; r holds the outcomes of
\* the Math.random() calls of one ant update.
updateIdleSurface(s, dt, r) ==
  LET SPEED == Distance(20, dt)
      x1 == clamp(s.ant.x + (IF r.left THEN -SPEED ELSE SPEED), SU \div 2,
                  WORLD_WIDTH * SU - SU \div 2)
      col == x1 \div SU
      belowCell == getCell(s.world, col, SOIL_START_Y)
      canDigHere == belowCell # Null /\ (belowCell.type = "dirt" \/ belowCell.type = "stone")
      walked == [s.ant EXCEPT !.x = x1, !.y = SOIL_START_Y * SU - SU \div 2]
  IN  IF canDigHere /\ r.dig
      THEN [s EXCEPT !.ant = [walked EXCEPT !.homeColumn = col, !.mode = "diggingDown"]]
      ELSE [s EXCEPT !.ant = walked]

updateDiggingDown(s, dt) ==
  LET SPEED == Distance(30, dt)
      moved == [s.ant EXCEPT !.x = s.ant.homeColumn * SU + SU \div 2, !.y = @ + SPEED]
      cellX == s.ant.homeColumn
      cellY == (moved.y + SU \div 2) \div SU
      cell == getCell(s.world, cellX, cellY)
  IN  IF cellY >= WORLD_HEIGHT - 1
      THEN [s EXCEPT !.ant = [moved EXCEPT !.mode = "carryingUp"]]
      ELSE IF cell # Null /\ (cell.type = "dirt" \/ cell.type = "stone")
      THEN [world |-> setCellToAir(s.world, cellX, cellY),
            ant |-> [moved EXCEPT !.hasDirt = TRUE, !.carrying = "dirt",
                                  !.y = cellY * SU - SU \div 2, !.mode = "carryingUp"]]
      ELSE [s EXCEPT !.ant = moved]

\* A climb that only ends above the top of the world.
updateCarryingUpToTop(s, dt) ==
  LET CLIMB_SPEED == Distance(30, dt)
      moved == [s.ant EXCEPT !.x = s.ant.homeColumn * SU + SU \div 2, !.y = @ - CLIMB_SPEED]
  IN  IF moved.y < -CLIMB_SPEED
      THEN [s EXCEPT !.ant = [moved EXCEPT !.mode = "carryingSurface",
                                           !.y = SOIL_START_Y * SU - SU \div 2]]
      ELSE [s EXCEPT !.ant = moved]

updateCarryingUp(s, dt) ==
  LET CLIMB_SPEED == Distance(30, dt)
      moved == [s.ant EXCEPT !.x = s.ant.homeColumn * SU + SU \div 2, !.y = @ - CLIMB_SPEED]
  IN  IF moved.y < SOIL_START_Y * SU - SU \div 2
      THEN [s EXCEPT !.ant = [moved EXCEPT !.mode = "carryingSurface",
                                           !.y = SOIL_START_Y * SU - SU \div 2]]
      ELSE [s EXCEPT !.ant = moved]

\* (Math.random() - 0.5) * SPEED for a draw of 0, of 0.5 and of nearly 1.
Wobble(draw, SPEED) ==
  CASE draw = "low" -> -(SPEED \div 2)
    [] draw = "mid" -> 0
    [] draw = "high" -> (SPEED - 1) \div 2

updateCarryingSurface(s, dt, r) ==
  LET SPEED == Distance(15, dt)
      targetX == s.ant.homeColumn * SU + SU \div 2
      bias == fround(targetX - s.ant.x, 10)
      x1 == clamp(s.ant.x + bias + Wobble(r.wobble, SPEED), SU \div 2,
                  WORLD_WIDTH * SU - SU \div 2)
      walked == [s.ant EXCEPT !.x = x1, !.y = SOIL_START_Y * SU - SU \div 2]
      col == x1 \div SU
      dropY == findSurfaceDropY(s.world, col)
  IN  IF ~r.drop THEN [s EXCEPT !.ant = walked]
      ELSE IF Abs(col - s.ant.homeColumn) < 1 THEN [s EXCEPT !.ant = walked]
      ELSE IF dropY >= 0
      THEN [world |-> setCellToDirt(s.world, col, dropY),
            ant |-> [walked EXCEPT !.hasDirt = FALSE, !.carrying = "none",
                                   !.mode = "diggingDown",
                                   !.x = s.ant.homeColumn * SU + SU \div 2,
                                   !.y = SOIL_START_Y * SU - SU \div 2]]
      ELSE [s EXCEPT !.ant = walked]

\* updateAnt(ant, gameState, dt) of the state-machine profile.
smUpdateAnt(s, dt, r) ==
  LET u == CASE s.ant.mode = "idleSurface" -> updateIdleSurface(s, dt, r)
             [] s.ant.mode = "diggingDown" -> updateDiggingDown(s, dt)
             [] s.ant.mode = "carryingUp" -> updateCarryingUp(s, dt)
             [] s.ant.mode = "carryingSurface" -> updateCarryingSurface(s, dt, r)
  IN  [u EXCEPT !.ant.x = clamp(@, SU \div 2, WORLD_WIDTH * SU - SU \div 2),
                !.ant.y = clamp(@, 0, WORLD_HEIGHT * SU - SU \div 2)]

\* The draws an ant update can make in its mode.
smRandomOutcomes(ant) ==
  [left : IF ant.mode = "idleSurface" THEN BOOLEAN ELSE {FALSE},
   dig : IF ant.mode = "idleSurface" THEN BOOLEAN ELSE {FALSE},
   wobble : IF ant.mode = "carryingSurface" THEN {"low", "mid", "high"} ELSE {"mid"},
   drop : IF ant.mode = "carryingSurface" THEN BOOLEAN ELSE {FALSE}]

\* The loop over ants: S is a set of [world, ants].
RECURSIVE smAntPass(_, _, _)
smAntPass(S, i, dt) ==
  IF \A s \in S : i > Len(s.ants) THEN S
  ELSE smAntPass(UNION { { LET u == smUpdateAnt([world |-> s.world, ant |-> s.ants[i]], dt, r)
                           IN  [world |-> u.world, ants |-> [s.ants EXCEPT ![i] = u.ant]]
                           : r \in smRandomOutcomes(s.ants[i]) } : s \in S },
                 i + 1, dt)

\* simulateStep(gameState, dt) of the state-machine profile: the states it
\* can leave behind.
smSimulateStep(gs, dt) ==
  IF gs.settings.simSpeed = 0 THEN {gs}
  ELSE LET effectiveDt == <<dt[1] * gs.settings.simSpeed, dt[2]>>
           afterAnts == smAntPass({[world |-> gs.world, ants |-> gs.ants]}, 1, effectiveDt)
       IN  { [gs EXCEPT !.world = updatePheromones(s.world, effectiveDt), !.ants = s.ants] :
               s \in afterAnts }

\* An ant of createInitialGameState() standing at x on the surface.
createSurfaceAnt(x) ==
  [x |-> x, y |-> SOIL_START_Y * SU - SU \div 2, mode |-> "idleSurface",
   hasDirt |-> FALSE, carrying |-> "none", homeColumn |-> x \div SU]

\* Frame times of the ant simulation: none, a fiftieth of a second, and a
\* stall of a quarter second.
FrameTimes == {<<0, 1>>, <<1, 50>>, <<1, 4>>}

\* One ant in the middle of a surface cell, idle or just about to dig there;
\* the simulation paused, at normal or at double speed.
InitSM ==
  /\ profile = "sm"
  /\ state = Unused /\ edits = 0 /\ game = Unused
  /\ probe = Unused
  /\ \E col \in 0..(WORLD_WIDTH - 1), mode \in {"idleSurface", "diggingDown"},
        simSpeed \in 0..2 :
       gameState = GameStateWith(createInitialWorld,
                                 <<[createSurfaceAnt(col * SU + SU \div 2) EXCEPT !.mode = mode]>>,
                                 simSpeed)

SMSimulateStep ==
  /\ profile = "sm"
  /\ edits < MaxCalls
  /\ \E dt \in FrameTimes : gameState' \in smSimulateStep(gameState, dt)
  /\ edits' = edits + 1
  /\ UNCHANGED <<profile, state, probe, game>>

SpecSM == InitSM /\ [][SMSimulateStep]_vars

DirtCells(gs) == {i \in DOMAIN gs.world.cells : gs.world.cells[i].type = "dirt"}
DirtCarriers(gs) == {i \in 1..Len(gs.ants) : gs.ants[i].hasDirt}
DirtMass(gs) == Cardinality(DirtCells(gs)) + Cardinality(DirtCarriers(gs))

\* C2: every simulateStep of the state-machine profile preserves the number
\* of dirt cells plus the number of ants with hasDirt.
C2_DirtConserved == [][SMSimulateStep => DirtMass(gameState') = DirtMass(gameState)]_vars

\* ---------------------------------------------------------------------------
\* Sim, physics profile (src/src/sim/simulateStep.ts, lines 1-420): ants
\* with velocity, gravity, digging below their feet, food seeking.
\* Velocities are in position units per second, hunger in 1/HUNGER_FULL.

GRAVITY == 30
MAX_SPEED == 15
WANDER_FORCE == 20
ANT_RADIUS == 30
HUNGER_FULL == 10000
NEST_DEPTH_FROM_BOTTOM == 1

\* Math.random() in thousandths: a draw of 0 and a draw of nearly 1.
Draws == {0, 999}

\* Math.random() < num / den for the draw u.
Below(u, num, den) == u * den < 1000 * num

\* force * dt as a change of velocity, for a force of num / den cells/s^2.
Impulse(num, den, dt) == fround(num * SU * dt[1], den * dt[2])

RECURSIVE sqrtBetween(_, _, _)
sqrtBetween(n, lo, hi) ==
  IF lo >= hi THEN lo
  ELSE LET mid == (lo + hi + 1) \div 2
       IN  IF mid * mid <= n THEN sqrtBetween(n, mid, hi) ELSE sqrtBetween(n, lo, mid - 1)

\* Math.sqrt, rounded down to the position unit.
sqrt(n) == sqrtBetween(n, 0, Min(n, 46340))

isInNest(x, y) == y >= WORLD_HEIGHT - NEST_DEPTH_FROM_BOTTOM

isAntOnGround(ant, world) ==
  isSolidCell(world, ant.x \div SU, (ant.y + ANT_RADIUS + 1) \div SU)

RECURSIVE moundYFrom(_, _, _)
moundYFrom(world, x, moundY) ==
  IF moundY >= 0 /\ isSolidCell(world, x, moundY) THEN moundYFrom(world, x, moundY - 1)
  ELSE moundY

RECURSIVE depositDirtFrom(_, _, _)
depositDirtFrom(world, antX, dx) ==
  IF dx > 2
  THEN IF moundYFrom(world, antX, SOIL_START_Y - 1) >= 0
       THEN setCellToDirt(world, antX, moundYFrom(world, antX, SOIL_START_Y - 1))
       ELSE world
  ELSE IF antX + dx < 0 \/ antX + dx >= WORLD_WIDTH THEN depositDirtFrom(world, antX, dx + 1)
  ELSE IF moundYFrom(world, antX + dx, SOIL_START_Y - 1) >= 0
       THEN setCellToDirt(world, antX + dx, moundYFrom(world, antX + dx, SOIL_START_Y - 1))
       ELSE depositDirtFrom(world, antX, dx + 1)

depositDirt(ant, world) == depositDirtFrom(world, ant.x \div SU, -2)

randomWander(ant, dt, r) ==
  IF Below(r.wander, 1, 10)
  THEN [ant EXCEPT !.vx = @ + (IF Below(r.side, 1, 2) THEN -1 ELSE 1) * Impulse(WANDER_FORCE, 1, dt),
                   !.vy = IF ant.y >= SOIL_START_Y * SU
                          THEN @ + (IF Below(r.lift, 1, 2) THEN -1 ELSE 1)
                                     * Impulse(WANDER_FORCE, 2, dt)
                          ELSE @]
  ELSE ant

\* The offsets in the order the code tries them.
gradientOffsets == <<[dx |-> 1, dy |-> 0], [dx |-> -1, dy |-> 0],
                     [dx |-> 0, dy |-> 1], [dx |-> 0, dy |-> -1]>>

RECURSIVE followFrom(_, _, _, _, _, _, _)
followFrom(world, cellX, cellY, field, k, bestValue, bestDir) ==
  IF k > Len(gradientOffsets) THEN bestDir
  ELSE LET cell == getCell(world, cellX + gradientOffsets[k].dx, cellY + gradientOffsets[k].dy)
       IN  IF cell = Null THEN followFrom(world, cellX, cellY, field, k + 1, bestValue, bestDir)
           ELSE IF cell[field] > bestValue /\ 10 * cell[field] > ONE
           THEN followFrom(world, cellX, cellY, field, k + 1, cell[field], gradientOffsets[k])
           ELSE followFrom(world, cellX, cellY, field, k + 1, bestValue, bestDir)

followPheromoneGradient(world, cellX, cellY, type) ==
  followFrom(world, cellX, cellY,
             IF type = "food" THEN "pheromoneFood" ELSE "pheromoneHome", 1, 0, Null)

DistSq(food, ant) == (food.x - ant.x) * (food.x - ant.x) + (food.y - ant.y) * (food.y - ant.y)

RECURSIVE nearestFrom(_, _, _, _)
nearestFrom(foodItems, ant, k, nearestFood) ==
  IF k > Len(foodItems) THEN nearestFood
  ELSE IF nearestFood = Null \/ DistSq(foodItems[k], ant) < DistSq(nearestFood, ant)
  THEN nearestFrom(foodItems, ant, k + 1, foodItems[k])
  ELSE nearestFrom(foodItems, ant, k + 1, nearestFood)

seekFood(ant, foodItems, dt, world) ==
  LET pheromoneDirection == followPheromoneGradient(world, ant.x \div SU, ant.y \div SU, "food")
      nearestFood == nearestFrom(foodItems, ant, 1, Null)
      len == IF sqrt(DistSq(nearestFood, ant)) = 0 THEN SU ELSE sqrt(DistSq(nearestFood, ant))
  IN  IF pheromoneDirection # Null
      THEN [ant EXCEPT !.vx = @ + pheromoneDirection.dx * Impulse(3 * WANDER_FORCE, 2, dt),
                       !.vy = @ + pheromoneDirection.dy * Impulse(3 * WANDER_FORCE, 2, dt)]
      ELSE IF nearestFood # Null
      THEN [ant EXCEPT !.vx = @ + fround((nearestFood.x - ant.x) * 2 * WANDER_FORCE * SU * dt[1],
                                         len * dt[2]),
                       !.vy = @ + fround((nearestFood.y - ant.y) * 2 * WANDER_FORCE * SU * dt[1],
                                         len * dt[2])]
      ELSE ant

\* depositPheromones(ant, gameState, dt), on the world
depositPheromones(ant, world, dt) ==
  LET amount == fround(6 * ONE * dt[1], 10 * dt[2])
      home == IF isInNest(ant.x \div SU, ant.y \div SU)
              THEN depositHomePheromone(world, ant.x, ant.y, amount) ELSE world
  IN  IF 10 * ant.hunger < 3 * HUNGER_FULL
      THEN depositFoodPheromone(home, ant.x, ant.y, amount) ELSE home

\* The index of the food item the reverse loop eats, or 0.
RECURSIVE eatenFrom(_, _, _)
eatenFrom(foodItems, ant, k) ==
  IF k < 1 THEN 0
  ELSE IF 4 * DistSq(foodItems[k], ant) < SU * SU THEN k
  ELSE eatenFrom(foodItems, ant, k - 1)

RemoveAt(seq, k) == [j \in 1..(Len(seq) - 1) |-> IF j < k THEN seq[j] ELSE seq[j + 1]]

\* An ant left where its velocity took it.
keepInBoundsNever(ant) == ant

\* The bounds clamp of the physics updateAnt: position clamped, velocity bounced.
keepInBounds(ant) ==
  LET x1 == IF ant.x < 0 THEN [ant EXCEPT !.x = 0, !.vx = Abs(@)] ELSE ant
      x2 == IF x1.x >= WORLD_WIDTH * SU
            THEN [x1 EXCEPT !.x = WORLD_WIDTH * SU - SU \div 10, !.vx = -Abs(@)] ELSE x1
      y1 == IF x2.y < 0 THEN [x2 EXCEPT !.y = 0, !.vy = Abs(@)] ELSE x2
  IN  IF y1.y >= WORLD_HEIGHT * SU
      THEN [y1 EXCEPT !.y = WORLD_HEIGHT * SU - SU \div 10, !.vy = -Abs(@)] ELSE y1

\* The physics updateAnt in the order of its statements; every part works on
\* s = [gs, ant] and r holds the Math.random() draws.
antHunger(s, dt) ==
  [s EXCEPT !.ant.hunger = Min(HUNGER_FULL, @ + fround(2 * HUNGER_FULL * dt[1], 100 * dt[2]))]

antGravity(s, dt) ==
  IF ~isAntOnGround(s.ant, s.gs.world)
  THEN [s EXCEPT !.ant.vy = @ + (IF s.ant.y >= SOIL_START_Y * SU
                                 THEN Impulse(15 * GRAVITY, 100, dt)
                                 ELSE Impulse(GRAVITY, 1, dt))]
  ELSE s

\* Digging; the particle spread is drawn at its midpoint.
antDig(s, dt, r) ==
  LET cellX == s.ant.x \div SU
      belowY == (s.ant.y + ANT_RADIUS + 1) \div SU
  IN  IF isAntOnGround(s.ant, s.gs.world) /\ s.ant.carrying = "none"
         /\ Below(r.dig, dt[1], 2 * dt[2])
      THEN [s EXCEPT !.gs.world = setCellToAir(@, cellX, belowY),
                     !.ant.carrying = "dirt",
                     !.gs.particles = @ \o [k \in 1..4 |->
                        [x |-> cellX * SU + SU \div 2, y |-> belowY * SU + SU \div 2,
                         vx |-> 0, vy |-> -5 * SU]]]
      ELSE s

antCarry(s, dt) ==
  IF s.ant.carrying # "dirt" THEN s
  ELSE IF s.ant.y < SOIL_START_Y * SU
  THEN [s EXCEPT !.ant.vy = @ - Impulse(8 * WANDER_FORCE, 10, dt),
                 !.gs.world = depositDirt(s.ant, @),
                 !.ant.carrying = "none"]
  ELSE [s EXCEPT !.ant.vy = @ - Impulse(8 * WANDER_FORCE, 10, dt)]

antSteer(s, dt, r) ==
  IF 10 * s.ant.hunger > 7 * HUNGER_FULL /\ Len(s.gs.foodItems) > 0
  THEN [s EXCEPT !.ant = seekFood(s.ant, s.gs.foodItems, dt, s.gs.world)]
  ELSE [s EXCEPT !.ant = randomWander(s.ant, dt, r)]

antFriction(s) == [s EXCEPT !.ant.vx = fround(@ * 95, 100), !.ant.vy = fround(@ * 95, 100)]

antSpeedLimit(s) ==
  LET speedSq == s.ant.vx * s.ant.vx + s.ant.vy * s.ant.vy
  IN  IF speedSq > MAX_SPEED * SU * MAX_SPEED * SU
      THEN [s EXCEPT !.ant.vx = fround(@ * MAX_SPEED * SU, sqrt(speedSq)),
                     !.ant.vy = fround(@ * MAX_SPEED * SU, sqrt(speedSq))]
      ELSE s

antMove(s, dt) ==
  [s EXCEPT !.ant.x = @ + fround(s.ant.vx * dt[1], dt[2]),
            !.ant.y = @ + fround(s.ant.vy * dt[1], dt[2])]

antLand(s) ==
  LET belowY == (s.ant.y + ANT_RADIUS + 1) \div SU
      cellBelow == getCell(s.gs.world, s.ant.x \div SU, belowY)
  IN  IF cellBelow # Null /\ (cellBelow.type = "dirt" \/ cellBelow.type = "stone")
         /\ s.ant.y + ANT_RADIUS > belowY * SU
      THEN [s EXCEPT !.ant.y = belowY * SU - ANT_RADIUS, !.ant.vy = 0]
      ELSE s

antBounds(s) == [s EXCEPT !.ant = keepInBounds(@)]

antMark(s, dt) == [s EXCEPT !.gs.world = depositPheromones(s.ant, @, dt)]

\* checkFoodConsumption(ant, gameState)
checkFoodConsumption(s) ==
  LET eaten == eatenFrom(s.gs.foodItems, s.ant, Len(s.gs.foodItems))
  IN  IF eaten > 0
      THEN [s EXCEPT !.gs.foodItems = RemoveAt(@, eaten), !.ant.hunger = 0,
                     !.gs.colony.foodStored = @ + 1]
      ELSE s

\* updateAnt(ant, gameState, dt) of the physics profile, for ant i.
phUpdateAnt(gs, i, dt, r) ==
  Only({ [n.gs EXCEPT !.ants[i] = n.ant] :
    n \in { checkFoodConsumption(m) :
    m \in { antMark(l, dt) :
    l \in { antBounds(k) :
    k \in { antLand(j) :
    j \in { antMove(h, dt) :
    h \in { antSpeedLimit(g) :
    g \in { antFriction(f) :
    f \in { antSteer(e, dt, r) :
    e \in { antCarry(d, dt) :
    d \in { antDig(c, dt, r) :
    c \in { antGravity(b, dt) :
    b \in { antHunger(a, dt) :
    a \in { [gs |-> gs, ant |-> gs.ants[i]] } } } } } } } } } } } } } })

\* The draws one physics ant update makes; side and lift are drawn only
\* when the wander draw succeeds.
phRandomOutcomes ==
  {r \in [dig : Draws, wander : Draws, side : Draws, lift : Draws] :
     ~Below(r.wander, 1, 10) => r.side = 0 /\ r.lift = 0}

RECURSIVE phAntPass(_, _, _)
phAntPass(S, i, dt) ==
  IF \A gs \in S : i > Len(gs.ants) THEN S
  ELSE phAntPass({ phUpdateAnt(gs, i, dt, r) : gs \in S, r \in phRandomOutcomes }, i + 1, dt)

updateDirtParticles(gs, dt) ==
  LET fallen == [k \in 1..Len(gs.particles) |->
                   LET vy == gs.particles[k].vy + Impulse(GRAVITY, 1, dt)
                   IN  [gs.particles[k] EXCEPT
                          !.vy = vy,
                          !.x = @ + fround(gs.particles[k].vx * dt[1], dt[2]),
                          !.y = @ + fround(vy * dt[1], dt[2])]]
      flying(particle) == ~(particle.y \div SU >= WORLD_HEIGHT - 1
                            \/ isSolidCell(gs.world, particle.x \div SU, particle.y \div SU))
  IN  [gs EXCEPT !.particles = SelectSeq(fallen, flying)]

\* simulateStep(gameState, dt) of the physics profile: the states it can
\* leave behind.
phSimulateStep(gs, dt) ==
  IF gs.settings.simSpeed = 0 THEN {gs}
  ELSE LET effectiveDt == <<dt[1] * gs.settings.simSpeed, dt[2]>>
       IN  { [p EXCEPT !.world = updatePheromones(p.world, effectiveDt)] :
               p \in { updateDirtParticles(a, effectiveDt) :
                         a \in phAntPass({gs}, 1, effectiveDt) } }

MaxSteps == 2

PhysicsStateWith(world, ants, foodItems, simSpeed) ==
  [world |-> world, ants |-> ants, particles |-> <<>>, foodItems |-> foodItems,
   colony |-> [foodStored |-> 0], settings |-> [simSpeed |-> simSpeed]]

\* An ant of createInitialGameState() at (x, y) with velocity v.
createPhysicsAnt(x, y, v, carrying) ==
  [x |-> x, y |-> y, vx |-> v[1], vy |-> v[2], hunger |-> 0, carrying |-> carrying]

\* The initial world with the columns in cols dug out down to the bottom.
ShaftWorld(cols) ==
  [createInitialWorld EXCEPT !.cells = [i \in DOMAIN @ |->
     IF i % WORLD_WIDTH \in cols THEN [@[i] EXCEPT !.type = "air"] ELSE @[i]]]

\* Speeds an ant can have: at rest, and fast towards a corner.
VelocityChoices == {<<0, 0>>, <<-10 * SU, -10 * SU>>, <<10 * SU, 10 * SU>>}

\* One ant in the left or right column, resting on the surface as
\* createInitialGameState() puts it or moving fast at the top or (in a shaft)
\* at the bottom of the world; the simulation paused or running.
InitPhysics ==
  /\ profile = "physics"
  /\ state = Unused /\ edits = 0 /\ game = Unused
  /\ probe = Unused
  /\ \E x \in {SU \div 2, WORLD_WIDTH * SU - SU \div 10}, simSpeed \in 0..1 :
       \/ gameState = PhysicsStateWith(createInitialWorld,
                        <<createPhysicsAnt(x, SOIL_START_Y * SU - SU \div 2, <<0, 0>>, "none")>>,
                        <<>>, simSpeed)
       \/ \E v \in VelocityChoices, carrying \in {"none", "dirt"},
             y \in {SU \div 10, WORLD_HEIGHT * SU - SU \div 2} :
            gameState = PhysicsStateWith(ShaftWorld({x \div SU}),
                          <<createPhysicsAnt(x, y, v, carrying)>>, <<>>, simSpeed)

PhysicsSimulateStep ==
  /\ profile = "physics"
  /\ edits < MaxSteps
  /\ \E dt \in FrameTimes : gameState' \in phSimulateStep(gameState, dt)
  /\ edits' = edits + 1
  /\ UNCHANGED <<profile, state, probe, game>>

SpecPhysics == InitPhysics /\ [][PhysicsSimulateStep]_vars

\* ---------------------------------------------------------------------------
\* Game profile (src/unnamed/part_001, types in src/src/game/types.ts): ants
\* with an AntState machine in a world of Air, Dirt and Tunnel cells.
\* Positions and per-tick velocities are in 1/GU cell, hunger in 1/1000.

GAME_WIDTH == 8
GAME_HEIGHT == 5
TUNNEL_DEPTH == 2
THINK_TIME == 2
DIG_TIME == 1
GU == 4
WALK_SPEED == 6
CLIMB_SPEED == 4
FALL_GRAVITY == 2
MAX_FALL_SPEED == 32
HUNGER_THRESHOLD == 700
SPAWN_INTERVAL == 500
MAX_ANTS == 20

gameInBounds(gx, gy) == gx >= 0 /\ gx < GAME_WIDTH /\ gy >= 0 /\ gy < GAME_HEIGHT

\* isSolid(world, x, y) of the game profile
gameIsSolid(world, x, y) ==
  IF ~gameInBounds(x \div GU, y \div GU) THEN TRUE
  ELSE world[y \div GU][x \div GU] \in {"Dirt", "Sand"}

isPassable(world, x, y) ==
  IF ~gameInBounds(x \div GU, y \div GU) THEN FALSE
  ELSE world[y \div GU][x \div GU] \in {"Air", "Tunnel"}

checkGrounded(world, x, y) == gameIsSolid(world, x, y + GU)

canClimb(world, x, y, dir) ==
  gameIsSolid(world, x + dir * GU, y) /\ isPassable(world, x, y - GU)

FoodDist(food, ant) == Abs(food.x * GU - ant.x) + Abs(food.y * GU - ant.y)

RECURSIVE findNearestFrom(_, _, _, _)
findNearestFrom(food, ant, k, nearest) ==
  IF k > Len(food) THEN nearest
  ELSE IF nearest = Null \/ FoodDist(food[k], ant) < FoodDist(nearest, ant)
  THEN findNearestFrom(food, ant, k + 1, food[k])
  ELSE findNearestFrom(food, ant, k + 1, nearest)

findNearestFood(g, ant) == findNearestFrom(g.food, ant, 1, Null)

\* Each case of the switch works on s = [game, ant]; r holds the draws.
caseIdle(s, r) ==
  IF s.ant.thinkCooldown > 0 THEN s
  ELSE LET decided ==
             IF s.ant.hunger > HUNGER_THRESHOLD /\ s.game.colony.foodStored > 0
             THEN [s EXCEPT !.ant.state = "Eating", !.game.colony.foodStored = @ - 1,
                            !.ant.hunger = 0]
             ELSE IF Len(s.game.food) > 0 /\ ~s.ant.carryingFood
             THEN [s EXCEPT !.ant.targetX = findNearestFood(s.game, s.ant).x,
                            !.ant.targetY = findNearestFood(s.game, s.ant).y,
                            !.ant.state = "Walking"]
             ELSE IF r.think
             THEN [s EXCEPT !.ant.direction = r.dir, !.ant.state = r.pick]
             ELSE s
       IN  [decided EXCEPT !.ant.thinkCooldown = THINK_TIME + r.extra]

\* Walk forward, else climb, else turn around (Walking).
walkOrClimb(world, ant) ==
  IF isPassable(world, ant.x + ant.direction * WALK_SPEED, ant.y)
  THEN [ant EXCEPT !.vx = ant.direction * WALK_SPEED]
  ELSE IF canClimb(world, ant.x, ant.y, ant.direction)
  THEN [ant EXCEPT !.vy = -CLIMB_SPEED, !.vx = ant.direction * (WALK_SPEED \div 2)]
  ELSE [ant EXCEPT !.direction = -@, !.vx = 0]

\* The index of the food item the reverse loop picks up, or 0.
RECURSIVE reachedFrom(_, _, _)
reachedFrom(food, ant, k) ==
  IF k < 1 THEN 0
  ELSE IF FoodDist(food[k], ant) < 2 * GU THEN k
  ELSE reachedFrom(food, ant, k - 1)

caseWalking(s, r) ==
  IF ~s.ant.grounded THEN s
  ELSE LET walked == walkOrClimb(s.game.world, s.ant)
           k == reachedFrom(s.game.food, walked, Len(s.game.food))
           taken == IF k = 0 THEN [s EXCEPT !.ant = walked]
                    ELSE [game |-> [s.game EXCEPT !.food =
                                      IF s.game.food[k].amount - 1 <= 0 THEN RemoveAt(@, k)
                                      ELSE [@ EXCEPT ![k].amount = @ - 1]],
                          ant |-> [walked EXCEPT !.carryingFood = TRUE,
                                                 !.state = "CarryingFood",
                                                 !.targetX = Null, !.targetY = Null]]
       IN  IF taken.ant.thinkCooldown > 0 THEN taken
           ELSE IF r.toIdle THEN [taken EXCEPT !.ant.state = "Idle", !.ant.thinkCooldown = THINK_TIME]
           ELSE IF r.flip THEN [taken EXCEPT !.ant.direction = -@, !.ant.thinkCooldown = THINK_TIME]
           ELSE [taken EXCEPT !.ant.thinkCooldown = THINK_TIME]

caseDigging(s, r) ==
  LET digX == (s.ant.x + s.ant.direction * GU) \div GU
      digY == (s.ant.y + GU) \div GU
      digs == gameInBounds(digX, digY) /\ s.game.world[digY][digX] = "Dirt"
      dug == IF digs
             THEN [game |-> [s.game EXCEPT !.world[digY][digX] = "Tunnel"],
                   ant |-> [s.ant EXCEPT !.carryingDirt = TRUE, !.state = "CarryingDirt",
                                         !.digCooldown = DIG_TIME]]
             ELSE s
      tried == IF s.ant.grounded /\ s.ant.digCooldown <= 0
               THEN (IF r.stop THEN [dug EXCEPT !.ant.state = "Idle"] ELSE dug)
               ELSE s
  IN  [tried EXCEPT !.ant.vx = 0]

caseCarryingFood(s) ==
  IF ~s.ant.grounded THEN s
  ELSE IF Abs(2 * s.ant.x - GAME_WIDTH * GU) < 6 * GU /\ 10 * s.ant.y > 4 * GAME_HEIGHT * GU
  THEN [s EXCEPT !.ant.carryingFood = FALSE, !.game.colony.foodStored = @ + 1,
                 !.ant.state = "Idle"]
  ELSE LET dir == IF 2 * s.ant.x < GAME_WIDTH * GU THEN 1 ELSE -1
           turned == [s.ant EXCEPT !.direction = dir]
       IN  IF isPassable(s.game.world, turned.x + dir * WALK_SPEED, turned.y)
           THEN [s EXCEPT !.ant = [turned EXCEPT !.vx = dir * WALK_SPEED]]
           ELSE IF canClimb(s.game.world, turned.x, turned.y, dir)
           THEN [s EXCEPT !.ant = [turned EXCEPT !.vy = -CLIMB_SPEED,
                                                 !.vx = dir * (WALK_SPEED \div 2)]]
           ELSE [s EXCEPT !.ant = [turned EXCEPT !.direction = -dir]]

caseCarryingDirt(s) ==
  IF ~s.ant.grounded THEN s
  ELSE IF 100 * s.ant.y < 42 * GAME_HEIGHT * GU
  THEN [s EXCEPT !.ant.carryingDirt = FALSE, !.ant.state = "Idle"]
  ELSE LET dir == IF 2 * s.ant.x < GAME_WIDTH * GU THEN 1 ELSE -1
           turned == [s.ant EXCEPT !.direction = dir]
       IN  IF isPassable(s.game.world, turned.x + dir * WALK_SPEED, turned.y)
           THEN [s EXCEPT !.ant = [turned EXCEPT !.vx = dir * WALK_SPEED]]
           ELSE IF isPassable(s.game.world, turned.x, turned.y - GU)
           THEN [s EXCEPT !.ant = [turned EXCEPT !.vy = -CLIMB_SPEED]]
           ELSE [s EXCEPT !.ant = [turned EXCEPT !.direction = -dir]]

caseEating(s) ==
  IF s.ant.thinkCooldown <= 0
  THEN [s EXCEPT !.ant.vx = 0, !.ant.state = "Idle", !.ant.thinkCooldown = THINK_TIME]
  ELSE [s EXCEPT !.ant.vx = 0]

\* "Keep in bounds" of the game updateAnt.
gameKeepInBounds(ant) ==
  [ant EXCEPT !.x = Max(GU \div 2, Min(GAME_WIDTH * GU - GU \div 2, @)),
              !.y = Max(GU \div 2, Min(GAME_HEIGHT * GU - GU \div 2, @))]

\* A collision test for the whole move: the ant goes to (newX, newY) or stays.
applyVelocitiesJointly(world, ant) ==
  LET newX == ant.x + ant.vx
      newY == ant.y + ant.vy
  IN  IF ~gameIsSolid(world, newX, ant.y) /\ ~gameIsSolid(world, newX, newY)
      THEN [ant EXCEPT !.x = newX, !.y = newY]
      ELSE [ant EXCEPT !.vx = 0, !.vy = 0, !.grounded = IF newY > ant.y THEN TRUE ELSE @]

\* "Apply velocities with collision" of the game updateAnt.
applyVelocities(world, ant) ==
  LET newX == ant.x + ant.vx
      newY == ant.y + ant.vy
      h == IF ~gameIsSolid(world, newX, ant.y) THEN [ant EXCEPT !.x = newX]
           ELSE [ant EXCEPT !.vx = 0]
  IN  IF ~gameIsSolid(world, h.x, newY) THEN [h EXCEPT !.y = newY]
      ELSE [h EXCEPT !.vy = 0, !.grounded = IF newY > h.y THEN TRUE ELSE @]

\* updateAnt(state, ant) of the game profile up to the end of the switch:
\* [game, ant] with the velocities the ant's state has chosen.
gameSteer(g, i, r) ==
  LET grounded == checkGrounded(g.world, g.ants[i].x, g.ants[i].y)
      ticked == [g.ants[i] EXCEPT
                   !.grounded = grounded,
                   !.vy = IF ~grounded THEN Min(@ + FALL_GRAVITY, MAX_FALL_SPEED) ELSE 0,
                   !.hunger = Min(1000, @ + 1),
                   !.digCooldown = IF @ > 0 THEN @ - 1 ELSE @,
                   !.thinkCooldown = IF @ > 0 THEN @ - 1 ELSE @]
      s == [game |-> g, ant |-> ticked]
  IN  CASE ticked.state = "Idle" -> caseIdle(s, r)
        [] ticked.state = "Walking" -> caseWalking(s, r)
        [] ticked.state = "Digging" -> caseDigging(s, r)
        [] ticked.state = "CarryingFood" -> caseCarryingFood(s)
        [] ticked.state = "CarryingDirt" -> caseCarryingDirt(s)
        [] ticked.state = "Eating" -> caseEating(s)

\* updateAnt(state, ant) of the game profile, for ant i.
gameUpdateAnt(g, i, r) ==
  LET u == gameSteer(g, i, r)
      final == [gameKeepInBounds(applyVelocities(u.game.world, u.ant)) EXCEPT !.vx = 0]
  IN  [u.game EXCEPT !.ants[i] = final]

\* The draws an ant update can make in its state.
gameRandomOutcomes(ant) ==
  {r \in [think : BOOLEAN, dir : {-1, 1}, pick : {"Walking", "Digging"},
          extra : {0, THINK_TIME - 1}, toIdle : BOOLEAN, flip : BOOLEAN, stop : BOOLEAN] :
     /\ (ant.state # "Idle" => ~r.think /\ r.extra = 0)
     /\ (~r.think => r.dir = 1 /\ r.pick = "Walking")
     /\ (ant.state # "Walking" => ~r.toIdle)
     /\ (ant.state # "Walking" \/ r.toIdle => ~r.flip)
     /\ (ant.state # "Digging" => ~r.stop)}

RECURSIVE gameAntPass(_, _)
gameAntPass(S, i) ==
  IF \A g \in S : i > Len(g.ants) THEN S
  ELSE gameAntPass(UNION { { gameUpdateAnt(g, i, r) : r \in gameRandomOutcomes(g.ants[i]) } :
                           g \in S }, i + 1)

\* createAnt(id, x, y) of the game profile, facing direction.
gameCreateAnt(id, x, y, direction) ==
  [id |-> id, x |-> x, y |-> y, vx |-> 0, vy |-> 0, state |-> "Idle",
   direction |-> direction, grounded |-> FALSE, hunger |-> 0,
   carryingFood |-> FALSE, carryingDirt |-> FALSE, targetX |-> Null, targetY |-> Null,
   digCooldown |-> 0, thinkCooldown |-> 0]

\* A spawn rule without the limit on the number of ants.
spawnAntUnlimited(g) ==
  IF g.tick % SPAWN_INTERVAL = 0 /\ g.colony.foodStored > 5
  THEN { [g EXCEPT !.ants = Append(@, gameCreateAnt(Len(g.ants), x,
                                                    fround(45 * GAME_HEIGHT * GU, 100), d)),
                   !.colony.population = Len(g.ants) + 1] :
           x \in {(GAME_WIDTH * GU) \div 2 - 2 * GU, (GAME_WIDTH * GU) \div 2},
           d \in {-1, 1} }
  ELSE {g}

\* "Occasionally spawn new ant" of simulateStep.
spawnAnt(g) ==
  IF g.tick % SPAWN_INTERVAL = 0 /\ g.colony.foodStored > 5 /\ Len(g.ants) < MAX_ANTS
  THEN { [g EXCEPT !.ants = Append(@, gameCreateAnt(Len(g.ants), x,
                                                    fround(45 * GAME_HEIGHT * GU, 100), d)),
                   !.colony.population = Len(g.ants) + 1] :
           x \in {(GAME_WIDTH * GU) \div 2 - 2 * GU, (GAME_WIDTH * GU) \div 2},
           d \in {-1, 1} }
  ELSE {g}

RECURSIVE gameTicks(_, _)
gameTicks(S, steps) ==
  IF steps <= 0 THEN S
  ELSE gameTicks(UNION { spawnAnt(a) :
                         a \in UNION { gameAntPass({[g EXCEPT !.tick = @ + 1]}, 1) : g \in S } },
                 steps - 1)

\* A step that runs the ticks whether or not the game is paused.
gameSimulateStepUnpaused(g) == gameTicks({g}, g.speed)

\* simulateStep(state) of the game profile: the states it can leave behind.
gameSimulateStep(g) == IF g.paused THEN {g} ELSE gameTicks({g}, g.speed)

gameCreateInitialWorld ==
  [y \in 0..(GAME_HEIGHT - 1) |-> [x \in 0..(GAME_WIDTH - 1) |->
     IF 10 * y < 4 * GAME_HEIGHT THEN "Air" ELSE "Dirt"]]

\* The first Dirt row of the centre column.
surfaceY == CHOOSE y \in 0..(GAME_HEIGHT - 1) :
              /\ gameCreateInitialWorld[y][GAME_WIDTH \div 2] = "Dirt"
              /\ \A above \in 0..(y - 1) : gameCreateInitialWorld[above][GAME_WIDTH \div 2] # "Dirt"

\* createInitialGameState() of the game profile with its one ant at (x, y).
gameCreateInitialGameState(x, y, direction) ==
  [world |-> [ty \in 0..(GAME_HEIGHT - 1) |-> [tx \in 0..(GAME_WIDTH - 1) |->
                IF ty >= surfaceY /\ ty < surfaceY + TUNNEL_DEPTH
                   /\ tx >= GAME_WIDTH \div 2 - 1 /\ tx <= GAME_WIDTH \div 2 + 1
                THEN "Tunnel" ELSE gameCreateInitialWorld[ty][tx]]],
   ants |-> <<gameCreateAnt(0, x, y, direction)>>,
   food |-> <<>>,
   colony |-> [foodStored |-> 10, population |-> 1],
   tick |-> 0, paused |-> FALSE, speed |-> 1]

\* The host's speed buttons.
SpeedChoices == {1, 2, 4}

\* One ant in the starting tunnel; the host sets paused and speed before
\* every call of simulateStep.
InitGame ==
  /\ profile = "game"
  /\ state = Unused /\ edits = 0 /\ gameState = Unused
  /\ probe = Unused
  /\ \E x \in {(GAME_WIDTH \div 2) * GU - GU, (GAME_WIDTH \div 2) * GU + GU \div 2},
        d \in 0..(TUNNEL_DEPTH - 1), part \in {GU \div 4, GU \div 2}, direction \in {-1, 1} :
       game = gameCreateInitialGameState(x, (surfaceY + d) * GU + part, direction)

GameSimulateStep ==
  /\ profile = "game"
  /\ edits < MaxSteps
  /\ \E paused \in BOOLEAN, speed \in SpeedChoices :
       game' \in gameSimulateStep([game EXCEPT !.paused = paused, !.speed = speed])
  /\ edits' = edits + 1
  /\ UNCHANGED <<profile, state, probe, gameState>>

SpecGame == InitGame /\ [][GameSimulateStep]_vars

gameDirtCells(g) == {c \in (0..(GAME_HEIGHT - 1)) \X (0..(GAME_WIDTH - 1)) : g.world[c[1]][c[2]] = "Dirt"}
gameDirtCarriers(g) == {i \in 1..Len(g.ants) : g.ants[i].carryingDirt}
gameDirtMass(g) == Cardinality(gameDirtCells(g)) + Cardinality(gameDirtCarriers(g))

\* C3: every simulateStep of the game profile preserves the number of Dirt
\* cells plus the number of ants with carryingDirt.
C3_GameDirtConserved == [][GameSimulateStep => gameDirtMass(game') = gameDirtMass(game)]_vars

\* ---------------------------------------------------------------------------
\* The three continuous-position profiles side by side.

InitPosition == InitPhysics \/ InitSM \/ InitGame

NextPosition == PhysicsSimulateStep \/ SMSimulateStep \/ GameSimulateStep

SpecPosition == InitPosition /\ [][NextPosition]_vars

AntsInWorld ==
  /\ profile \in {"physics", "sm"} =>
       \A i \in 1..Len(gameState.ants) :
         /\ 0 <= gameState.ants[i].x /\ gameState.ants[i].x < WORLD_WIDTH * SU
         /\ 0 <= gameState.ants[i].y /\ gameState.ants[i].y < WORLD_HEIGHT * SU
  /\ profile = "game" =>
       \A i \in 1..Len(game.ants) :
         /\ 0 <= game.ants[i].x /\ game.ants[i].x < GAME_WIDTH * GU
         /\ 0 <= game.ants[i].y /\ game.ants[i].y < GAME_HEIGHT * GU

\* C5: after every simulateStep of the physics, state-machine and game
\* profiles (edits counts the calls made) every ant has 0 <= x < WORLD_WIDTH
\* and 0 <= y < WORLD_HEIGHT.
C5_AntsStayInWorld == edits > 0 => AntsInWorld

\* A physics ant that ran into the right and the bottom edge in the last
\* step: put back inside, both velocity components bounced.
C5_Witness ==
  /\ profile = "physics" /\ edits > 0
  /\ \E i \in 1..Len(gameState.ants) :
       /\ gameState.ants[i].x = WORLD_WIDTH * SU - SU \div 10 /\ gameState.ants[i].vx < 0
       /\ gameState.ants[i].y = WORLD_HEIGHT * SU - SU \div 10 /\ gameState.ants[i].vy < 0

\* ---------------------------------------------------------------------------
\* The cell predicates of the sandbox and of the game profile, asked about
\* cells inside and outside the grid.

\* digAt(state, x, y) of the game profile
digAt(g, x, y) ==
  IF gameInBounds(x \div GU, y \div GU) /\ g.world[y \div GU][x \div GU] = "Dirt"
  THEN [g EXCEPT !.world[y \div GU][x \div GU] = "Tunnel"]
  ELSE g

\* addFood(state, x, y) of the game profile; id is the reading of Date.now().
addFood(g, x, y, id) ==
  [g EXCEPT !.food = Append(@, [id |-> id, x |-> x \div GU, y |-> y \div GU, amount |-> 5])]

\* Pointer positions of the host, in position units: one left of and above
\* the canvas, the corner of every cell, and the far edge.
PointerXs == {-1} \cup {c * GU : c \in 0..GAME_WIDTH}
PointerYs == {-1} \cup {c * GU : c \in 0..GAME_HEIGHT}

InitCells ==
  /\ edits = 0 /\ gameState = Unused /\ probe = Unused
  /\ \/ /\ profile = "cells" /\ game = Unused
        /\ \E walls \in WallLayouts : \E sand \in SandChoices(walls) :
             state = SandboxWith(walls, sand, <<>>)
     \/ /\ profile = "gameCells" /\ state = Unused
        /\ \E x \in PointerXs, y \in PointerYs :
             game = digAt(gameCreateInitialGameState((GAME_WIDTH \div 2) * GU,
                                                     surfaceY * GU + GU \div 2, 1), x, y)

\* A caller asks the sandbox predicates about the cell (x, y).
ProbeCell ==
  /\ profile = "cells"
  /\ \E x \in -1..WORLD_WIDTH, y \in -1..WORLD_HEIGHT :
       probe' = [op |-> "cell", x |-> x, y |-> y,
                 isSolid |-> isSolid(state.grid, x, y),
                 isEmpty |-> isEmpty(state.grid, x, y),
                 isDiggable |-> isDiggable(state.grid, x, y)]
  /\ UNCHANGED <<profile, sandboxVars, gameState, game>>

\* A caller asks the game predicates about the position (x, y).
ProbeGameCell ==
  /\ profile = "gameCells"
  /\ \E x \in PointerXs, y \in PointerYs :
       probe' = [op |-> "gameCell", x |-> x, y |-> y,
                 isSolid |-> gameIsSolid(game.world, x, y),
                 isPassable |-> isPassable(game.world, x, y)]
  /\ UNCHANGED <<profile, sandboxVars, gameState, game>>

NextCells == ProbeCell \/ ProbeGameCell

SpecCells == InitCells /\ [][NextCells]_vars

\* C11: outside the grid isSolid answers true and isEmpty, isPassable and
\* isDiggable answer false; inside the grid isSolid is never true together
\* with isEmpty (sandbox) or isPassable (game).
C11_BoundaryAsymmetry ==
  probe # Unused =>
    /\ probe.op = "cell" =>
         IF InGrid(probe.x, probe.y) THEN ~(probe.isSolid /\ probe.isEmpty)
         ELSE probe.isSolid /\ ~probe.isEmpty /\ ~probe.isDiggable
    /\ probe.op = "gameCell" =>
         IF gameInBounds(probe.x \div GU, probe.y \div GU)
         THEN ~(probe.isSolid /\ probe.isPassable)
         ELSE probe.isSolid /\ ~probe.isPassable

\* The sandbox predicates were asked about the cell left of and above the grid.
C11_Witness ==
  /\ profile = "cells" /\ probe # Unused
  /\ probe.x = -1 /\ probe.y = -1 /\ probe.isSolid /\ ~probe.isEmpty

\* ---------------------------------------------------------------------------
\* The world accessors called with coordinates inside and outside the grid.
\* probe keeps the call and the world as it was before the call.

WorldCells ==
  { [type |-> ty, pheromoneFood |-> 0, pheromoneHome |-> 0] : ty \in {"air", "dirt", "stone"} }

AccessorCall(op, x, y, world, result) ==
  /\ profile = "world"
  /\ edits < MaxEdits
  /\ edits' = edits + 1
  /\ probe' = [op |-> op, x |-> x, y |-> y, before |-> gameState.world, result |-> result]
  /\ gameState' = [gameState EXCEPT !.world = world]
  /\ UNCHANGED <<profile, state, game>>

GetCell ==
  \E x \in -1..WORLD_WIDTH, y \in -1..WORLD_HEIGHT :
    AccessorCall("getCell", x, y, gameState.world, getCell(gameState.world, x, y))

SetCell ==
  \E x \in -1..WORLD_WIDTH, y \in -1..WORLD_HEIGHT, cell \in WorldCells :
    AccessorCall("setCell", x, y, setCell(gameState.world, x, y, cell), Null)

SetCellToAir ==
  \E x \in -1..WORLD_WIDTH, y \in -1..WORLD_HEIGHT :
    AccessorCall("setCellToAir", x, y, setCellToAir(gameState.world, x, y), Null)

SetCellToDirt ==
  \E x \in -1..WORLD_WIDTH, y \in -1..WORLD_HEIGHT :
    AccessorCall("setCellToDirt", x, y, setCellToDirt(gameState.world, x, y), Null)

NextWorldAccess == GetCell \/ SetCell \/ SetCellToAir \/ SetCellToDirt

SpecWorldAccess == InitWorld /\ [][NextWorldAccess]_vars

\* C12: for a coordinate outside the grid getCell returns null and setCell,
\* setCellToAir and setCellToDirt leave every cell as it was; for a coordinate
\* inside the grid no cell other than the one at index y*width+x changes.
C12_AccessorFrame ==
  (profile = "world" /\ probe # Unused /\ probe.op # "isSolidCell") =>
    /\ DOMAIN gameState.world.cells = DOMAIN probe.before.cells
    /\ IF isInBounds(probe.before, probe.x, probe.y)
       THEN \A i \in DOMAIN probe.before.cells :
              i # probe.y * probe.before.width + probe.x
                => gameState.world.cells[i] = probe.before.cells[i]
       ELSE /\ gameState.world.cells = probe.before.cells
            /\ probe.op = "getCell" => probe.result = Null

\* setCellToAir was called on a dirt cell at the right edge of the second
\* row and turned that cell, and no other, to air.
C12_Witness ==
  /\ profile = "world" /\ probe # Unused /\ probe.op = "setCellToAir"
  /\ probe.x = WORLD_WIDTH - 1 /\ probe.y = 1
  /\ probe.before.cells[probe.y * WORLD_WIDTH + probe.x].type = "dirt"
  /\ gameState.world.cells[probe.y * WORLD_WIDTH + probe.x].type = "air"

\* ---------------------------------------------------------------------------
\* The sandbox run for ever with one ant that starts unloaded ("carry").  No
\* behaviour of the active-set sandbox reads state.tick, so the counter stops
\* at MaxTick here and the run goes on.

InitCarry ==
  /\ profile = "carry"
  /\ edits = 0
  /\ gameState = Unused /\ probe = Unused /\ game = Unused
  /\ \E walls \in WallLayouts :
       \E sand \in {s \in SUBSET (AllCells \ walls) : Cardinality(s) <= MaxSand + 1} :
         \E ants \in {a \in AntChoices(walls, sand) \ {<<>>} : ~a[1].carrySand} :
           state = SandboxWith(walls, sand, ants)

carryStep(st) == { [s EXCEPT !.tick = Min(s.tick, MaxTick)] : s \in simulateStep(st) }

CarryStep ==
  /\ profile = "carry"
  /\ state' \in carryStep(state)
  /\ UNCHANGED <<profile, edits, simVars, game>>

\* The simulateStep in which the drop draw of walkBehavior (< 0.01) comes out
\* true for the loaded ant.
DropChanceFires ==
  /\ profile = "carry"
  /\ state.ants[1].carrySand
  /\ state' \in { s \in carryStep(state) : s.ants[1].state = "dropping" }
  /\ UNCHANGED <<profile, edits, simVars, game>>

SpecCarry ==
  InitCarry /\ [][CarryStep]_vars /\ WF_vars(CarryStep) /\ SF_vars(DropChanceFires)

\* The states a run from st passes through, followed until some state has
\* the ant unloaded or no new state appears.
RECURSIVE carryClosure(_, _)
carryClosure(seen, frontier) ==
  IF frontier = {} \/ \E s \in frontier : ~s.ants[1].carrySand THEN seen \cup frontier
  ELSE carryClosure(seen \cup frontier,
                    UNION {carryStep(s) : s \in frontier} \ (seen \cup frontier))

\* C13: an ant with carrySand = true eventually has carrySand = false however
\* the draws fall out fairly: from every reachable state in which the ant
\* carries, some continuation of the run reaches a state in which it does not
\* (there is no state from which the ant carries for ever).
C13_NoCarryLock ==
  (profile = "carry" /\ state.ants[1].carrySand)
    => \E s \in carryClosure({}, {state}) : ~s.ants[1].carrySand

\* ---------------------------------------------------------------------------
\* The two ant simulations of src/src/sim/simulateStep.ts side by side.

InitSim == InitSM \/ InitPhysics

NextSim == SMSimulateStep \/ PhysicsSimulateStep

SpecSim == InitSim /\ [][NextSim]_vars

\* A simulateStep(gameState, 0) of either variant.
ZeroDtStep ==
  \/ profile = "sm" /\ gameState' \in smSimulateStep(gameState, <<0, 1>>)
  \/ profile = "physics" /\ gameState' \in phSimulateStep(gameState, <<0, 1>>)

SameCells(a, b) == a.world.cells = b.world.cells

SameAnt(a, b) ==
  /\ a.x = b.x /\ a.y = b.y /\ a.carrying = b.carrying
  /\ "mode" \in DOMAIN a => a.mode = b.mode /\ a.hasDirt = b.hasDirt

SameAnts(a, b) ==
  Len(a.ants) = Len(b.ants) /\ \A i \in 1..Len(a.ants) : SameAnt(a.ants[i], b.ants[i])

\* C14: a simulateStep with dt = 0 while simSpeed is not 0 changes no cell
\* type, no pheromone value and no ant's position, mode or carried dirt, in
\* the physics and in the state-machine variant.
C14_ZeroDtChangesNothing ==
  [][(ZeroDtStep /\ gameState.settings.simSpeed # 0)
       => SameCells(gameState, gameState') /\ SameAnts(gameState, gameState')]_vars

\* ---------------------------------------------------------------------------
\* Paused steps.

\* A simulateStep call made while the simulation is paused: simSpeed = 0 in
\* the sim profiles; in the game profile the host has written paused = true
\* (and the speed) into the state before the call.
PausedStep ==
  /\ edits' = edits + 1
  /\ \/ profile \in {"sm", "physics"} /\ gameState.settings.simSpeed = 0
     \/ profile = "game" /\ game'.paused

\* C15: a simulateStep made while paused leaves the whole state as it was at
\* the call: grid, ants, fields, food, colony counters and tick.
C15_PausedStepChangesNothing ==
  [][PausedStep =>
       /\ gameState' = gameState
       /\ profile = "game" => game' = [game EXCEPT !.paused = TRUE, !.speed = game'.speed]]_vars

\* The game was stepped while running and then stepped while paused.
C15_Witness ==
  profile = "game" /\ game.paused /\ game.tick > 0 /\ edits = MaxSteps

\* ---------------------------------------------------------------------------
\* The sand pass of the sandbox observed ("pass"): probe keeps the state the
\* step started from and the moves of its sand pass, each <<from, to>>.

\* The move one iteration of the sand loop makes, if any.
MovesOf(s, u, key) ==
  IF u.grid = s.grid THEN <<>>
  ELSE << <<key, CHOOSE c \in AllCells :
                   s.grid[c[2]][c[1]] # "Sand" /\ u.grid[c[2]][c[1]] = "Sand">> >>

\* The sand loop of simulateStep with its moves; T is a set of [s, moves].
RECURSIVE SandPassMoves(_, _, _, _)
SandPassMoves(T, activeCells, i, ants) ==
  IF i > Len(activeCells) THEN T
  ELSE SandPassMoves(
         UNION { { [s |-> u, moves |-> t.moves \o MovesOf(t.s, u, activeCells[i])] :
                     u \in {ProcessKey(t.s, activeCells[i], ants, gl) : gl \in BOOLEAN} } :
                 t \in T },
         activeCells, i + 1, ants)

\* simulateStep(state) with the moves of its sand pass: a set of [state, moves].
simulateStepMoves(st) ==
  UNION { { [state |-> [grid |-> a.grid, ants |-> a.ants, tick |-> st.tick + 1,
                        activeSand |-> a.activeSand, marker |-> st.marker],
             moves |-> t.moves] :
              a \in AntPass({[grid |-> t.s.grid, activeSand |-> t.s.activeSand,
                              ants |-> st.ants]}, 1, st.marker) } :
          t \in SandPassMoves({[s |-> [grid |-> st.grid, activeSand |-> st.activeSand],
                                moves |-> <<>>]}, st.activeSand, 1, st.ants) }

InitPass ==
  /\ profile = "pass"
  /\ edits = 0
  /\ gameState = Unused /\ probe = Unused /\ game = Unused
  /\ \E walls \in WallLayouts : \E sand \in SandChoices(walls) :
       \E ants \in AntChoices(walls, sand) \ {<<>>} : state = SandboxWith(walls, sand, ants)

ObservedStep ==
  /\ profile = "pass"
  /\ state.tick < MaxTick
  /\ \E t \in simulateStepMoves(state) :
       /\ state' = t.state
       /\ probe' = [op |-> "sandPass", before |-> state, moves |-> t.moves]
  /\ UNCHANGED <<profile, edits, gameState, game>>

SpecPass == InitPass /\ [][ObservedStep]_vars

\* C16: the sand pass moves no particle, straight down or diagonally, into a
\* cell an ant occupies, and makes no diagonal move whose lateral cell (beside
\* the particle, above the target) an ant occupies.
C16_SandAvoidsAnts ==
  (profile = "pass" /\ probe # Unused) =>
    \A k \in 1..Len(probe.moves) :
      /\ ~isAntAt(probe.before.ants, probe.moves[k][2][1], probe.moves[k][2][2])
      /\ probe.moves[k][2][1] # probe.moves[k][1][1]
           => ~isAntAt(probe.before.ants, probe.moves[k][2][1], probe.moves[k][1][2])

\* An active particle lay right above an ant standing in an Empty cell, with
\* no way past it, and the sand pass left it there.
C16_Witness ==
  /\ profile = "pass" /\ probe # Unused
  /\ probe.moves = <<>>
  /\ \E i \in 1..Len(probe.before.activeSand) :
       LET key == probe.before.activeSand[i]
       IN  /\ isAntAt(probe.before.ants, key[1], key[2] + 1)
           /\ isEmpty(probe.before.grid, key[1], key[2] + 1)
           /\ probe.before.grid[key[2]][key[1]] = "Sand"

\* ---------------------------------------------------------------------------
\* Persistence (src/src/sim/persistence.ts, lines 1-105): a saved game read
\* back from localStorage ("load").  A JavaScript object is a function from
\* the names of the properties it has; a property it lacks is not in DOMAIN.

INITIAL_ANT_COUNT == 1

\* Math.random() * WORLD_WIDTH for a draw near 0 and a draw near 1.
StartXs == {SU \div 2, WORLD_WIDTH * SU - SU \div 2}

\* createInitialGameState() with the random x of each ant given.
createInitialGameState(xs) ==
  [meta |-> [version |-> 1],
   world |-> createInitialWorld,
   colony |-> [foodStored |-> 0, waterStored |-> 0, population |-> INITIAL_ANT_COUNT,
               queenAlive |-> TRUE],
   ants |-> [i \in 1..INITIAL_ANT_COUNT |-> createSurfaceAnt(xs[i])],
   particles |-> <<>>, foodItems |-> <<>>, waterItems |-> <<>>,
   settings |-> [simSpeed |-> 1, showDebugOverlays |-> FALSE]]

\* {...defaults, ...over}
Spread(defaults, over) ==
  [k \in DOMAIN defaults \cup DOMAIN over |-> IF k \in DOMAIN over THEN over[k] ELSE defaults[k]]

\* partial[k] || fallback, for a property that holds an object or an array
OrElse(partial, k, fallback) == IF k \in DOMAIN partial THEN partial[k] ELSE fallback

\* A migration that takes a homeColumn of 0 for a missing one.
hydrateAntTruthy(ant) ==
  Spread(ant, [mode |-> OrElse(ant, "mode", "idleSurface"),
               hasDirt |-> OrElse(ant, "hasDirt", FALSE),
               homeColumn |-> IF "homeColumn" \in DOMAIN ant /\ ant.homeColumn # 0
                              THEN ant.homeColumn
                              ELSE OrElse(ant, "x", 0) \div SU])

\* The ant migration of hydrateGameState.  Every mode a save holds is a
\* non-empty string, so ant.mode || 'idleSurface' keeps it.
hydrateAnt(ant) ==
  Spread(ant, [mode |-> OrElse(ant, "mode", "idleSurface"),
               hasDirt |-> OrElse(ant, "hasDirt", FALSE),
               homeColumn |-> IF "homeColumn" \in DOMAIN ant THEN ant.homeColumn
                              ELSE OrElse(ant, "x", 0) \div SU])

\* hydrateGameState(partial); defaults is its createInitialGameState().
hydrateGameState(partial, defaults) ==
  [meta |-> OrElse(partial, "meta", defaults.meta),
   world |-> OrElse(partial, "world", defaults.world),
   colony |-> Spread(defaults.colony, OrElse(partial, "colony", <<>>)),
   ants |-> LET ants == OrElse(partial, "ants", defaults.ants)
            IN  [i \in 1..Len(ants) |-> hydrateAnt(ants[i])],
   particles |-> OrElse(partial, "particles", <<>>),
   foodItems |-> OrElse(partial, "foodItems", <<>>),
   waterItems |-> OrElse(partial, "waterItems", <<>>),
   settings |-> Spread(defaults.settings, OrElse(partial, "settings", <<>>))]

\* loadGameState().  window tells whether a window exists; item is what
\* localStorage.getItem returns: nothing, a text JSON.parse throws on, or a
\* text that parses to a value of some type.
loadGameState(window, item, defaults) ==
  IF ~window THEN defaults
  ELSE IF item.kind = "missing" THEN defaults
  ELSE IF item.kind = "unparsable" THEN defaults
  ELSE IF item.type # "object" THEN defaults
  ELSE hydrateGameState(item.value, defaults)

\* The properties f has among those in keys.
Restrict(f, keys) == [k \in keys \cap DOMAIN f |-> f[k]]

\* Ants as older and newer versions saved them: x, mode, hasDirt and
\* homeColumn each present or not.
SavedAnts ==
  { Restrict([createSurfaceAnt(x) EXCEPT !.mode = mode, !.hasDirt = hasDirt,
                                         !.homeColumn = homeColumn],
             {"y", "carrying"} \cup present) :
      x \in StartXs, mode \in {"idleSurface", "carryingUp"}, hasDirt \in BOOLEAN,
      homeColumn \in {0, WORLD_WIDTH - 1},
      present \in SUBSET {"x", "mode", "hasDirt", "homeColumn"} }

\* Saved games: some of the properties of a state in which an ant has dug.
SavedGames ==
  { Restrict([meta |-> [version |-> 1],
              world |-> setCellToAir(createInitialWorld, 0, SOIL_START_Y),
              colony |-> [foodStored |-> 3],
              ants |-> <<ant>>,
              foodItems |-> <<[x |-> 0, y |-> 0]>>,
              settings |-> [simSpeed |-> 2]], present) :
      ant \in SavedAnts, present \in SUBSET {"world", "colony", "ants", "settings"} }

StoredItems ==
  {[kind |-> "missing"], [kind |-> "unparsable"]}
    \cup {[kind |-> "json", type |-> ty] : ty \in {"null", "number", "string", "boolean"}}
    \cup {[kind |-> "json", type |-> "object", value |-> g] : g \in SavedGames}

InitLoad ==
  /\ profile = "load"
  /\ state = Unused /\ edits = 0 /\ game = Unused
  /\ gameState = Unused
  /\ \E window \in BOOLEAN, item \in StoredItems :
       probe = [op |-> "stored", window |-> window, item |-> item]

LoadGameState ==
  /\ profile = "load"
  /\ gameState = Unused
  /\ \E xs \in [1..INITIAL_ANT_COUNT -> StartXs] :
       gameState' = loadGameState(probe.window, probe.item, createInitialGameState(xs))
  /\ UNCHANGED <<profile, state, edits, probe, game>>

SpecLoad == InitLoad /\ [][LoadGameState]_vars

InitialGameStates == { createInitialGameState(xs) : xs \in [1..INITIAL_ANT_COUNT -> StartXs] }

\* The saved game hydrateGameState was given, if loadGameState reached it.
Hydrated ==
  profile = "load" /\ gameState # Unused /\ probe.window
    /\ probe.item.kind = "json" /\ probe.item.type = "object"

\* C17: loadGameState always returns a state: createInitialGameState() for a
\* missing, non-object or unparsable save, and for a saved object a state in
\* which every ant has mode (default 'idleSurface'), hasDirt (default false)
\* and homeColumn (default floor(x), 0 without x) and every property the save
\* had is kept.
C17_HydrationFillsDefaults ==
  (profile = "load" /\ gameState # Unused) =>
    /\ DOMAIN gameState = {"meta", "world", "colony", "ants", "particles", "foodItems",
                           "waterItems", "settings"}
    /\ ~Hydrated => gameState \in InitialGameStates
    /\ Hydrated =>
         LET saved == probe.item.value
             ants == IF "ants" \in DOMAIN saved THEN saved.ants ELSE gameState.ants
         IN  /\ \A k \in DOMAIN saved \ {"ants", "colony", "settings"} : gameState[k] = saved[k]
             /\ \A k \in DOMAIN saved \cap {"colony", "settings"} :
                  \A f \in DOMAIN saved[k] : gameState[k][f] = saved[k][f]
             /\ Len(gameState.ants) = Len(ants)
             /\ \A i \in 1..Len(ants) :
                  /\ \A f \in DOMAIN ants[i] : gameState.ants[i][f] = ants[i][f]
                  /\ {"mode", "hasDirt", "homeColumn"} \subseteq DOMAIN gameState.ants[i]
                  /\ "mode" \notin DOMAIN ants[i] => gameState.ants[i].mode = "idleSurface"
                  /\ "hasDirt" \notin DOMAIN ants[i] => gameState.ants[i].hasDirt = FALSE
                  /\ "homeColumn" \notin DOMAIN ants[i] =>
                       gameState.ants[i].homeColumn =
                         IF "x" \in DOMAIN ants[i] THEN ants[i].x \div SU ELSE 0

\* A save whose ant stands in the last column with homeColumn 0 and without
\* mode and hasDirt was loaded.
C17_Witness ==
  /\ Hydrated
  /\ "ants" \in DOMAIN probe.item.value
  /\ DOMAIN probe.item.value.ants[1] = {"x", "y", "carrying", "homeColumn"}
  /\ probe.item.value.ants[1].homeColumn = 0
  /\ probe.item.value.ants[1].x \div SU = WORLD_WIDTH - 1
  /\ gameState.ants[1].mode = "idleSurface"

\* ---------------------------------------------------------------------------
\* The sand tools.

InDisc(x, y, cx, cy, radius) ==
  (x - cx) * (x - cx) + (y - cy) * (y - cy) <= radius * radius

\* C18: addSand(x, y, r) turns into Sand exactly the Empty cells of the grid
\* inside the disc dx*dx + dy*dy <= r*r and removeSand(x, y, r) turns into
\* Empty exactly the Sand cells inside it; every other cell keeps its type,
\* also when the centre lies outside the grid.
C18_DiscEditsExact ==
  [][\A c \in EditCentres, radius \in {0, MaxRadius} :
       /\ (edits' = edits + 1 /\ state' = addSand(state, c[1], c[2], radius)) =>
            \A cell \in AllCells :
              state'.grid[cell[2]][cell[1]] =
                IF InDisc(cell[1], cell[2], c[1], c[2], radius)
                     /\ state.grid[cell[2]][cell[1]] = "Empty"
                THEN "Sand" ELSE state.grid[cell[2]][cell[1]]
       /\ (edits' = edits + 1 /\ state' = removeSand(state, c[1], c[2], radius)) =>
            \A cell \in AllCells :
              state'.grid[cell[2]][cell[1]] =
                IF InDisc(cell[1], cell[2], c[1], c[2], radius)
                     /\ state.grid[cell[2]][cell[1]] = "Sand"
                THEN "Empty" ELSE state.grid[cell[2]][cell[1]]]_vars

\* addSand with radius MaxRadius has filled the cell above a full row and
\* left the cells beside it, which lie in the square but not in the disc.
C18_Witness ==
  /\ profile = "edit" /\ edits = 1
  /\ state.grid[0][1] = "Sand" /\ state.grid[1][1] = "Sand"
  /\ state.grid[0][0] = "Empty" /\ state.grid[0][2] = "Empty"

\* ---------------------------------------------------------------------------
\* The tools of the game profile: the host calls digAt or addFood with the
\* pointer position between two steps.  probe keeps the call and the state
\* it was made on.

DigAt ==
  /\ profile = "game"
  /\ edits < MaxSteps
  /\ \E x \in PointerXs, y \in PointerYs :
       /\ game' = digAt(game, x, y)
       /\ probe' = [op |-> "digAt", x |-> x, y |-> y, before |-> game]
  /\ edits' = edits + 1
  /\ UNCHANGED <<profile, state, gameState>>

\* Date.now() is read as the number of calls made so far.
AddFood ==
  /\ profile = "game"
  /\ edits < MaxSteps
  /\ \E x \in PointerXs, y \in PointerYs :
       /\ game' = addFood(game, x, y, edits)
       /\ probe' = [op |-> "addFood", x |-> x, y |-> y, before |-> game]
  /\ edits' = edits + 1
  /\ UNCHANGED <<profile, state, gameState>>

NextGameTools == DigAt \/ AddFood

SpecGameTools == InitGame /\ [][NextGameTools]_vars

\* C19: digAt and addFood called with a position outside the world leave the
\* game state unchanged (no cell modified, no food item added); digAt called
\* inside changes only the addressed cell and only from Dirt to Tunnel.
C19_ToolsValidateBounds ==
  (profile = "game" /\ probe # Unused) =>
    IF ~gameInBounds(probe.x \div GU, probe.y \div GU) THEN game = probe.before
    ELSE probe.op = "digAt" =>
           /\ game.ants = probe.before.ants /\ game.food = probe.before.food
           /\ \A x \in 0..(GAME_WIDTH - 1), y \in 0..(GAME_HEIGHT - 1) :
                \/ game.world[y][x] = probe.before.world[y][x]
                \/ /\ x = probe.x \div GU /\ y = probe.y \div GU
                   /\ probe.before.world[y][x] = "Dirt" /\ game.world[y][x] = "Tunnel"

\* ---------------------------------------------------------------------------
\* What an ant of the game profile carries.

\* A simulateStep of one tick: the host has set speed 1 and not paused.
SingleTick ==
  profile = "game" /\ edits' = edits + 1 /\ probe' = probe
    /\ game'.speed = 1 /\ ~game'.paused

\* C20: no ant ever has carryingFood and carryingDirt both true, and no tick
\* turns a Dirt cell into Tunnel for an ant whose carryingDirt is already
\* true: a tick digs at most as many cells as there are ants without dirt.
C20_AtMostOneUnit ==
  /\ [](profile = "game" =>
          \A i \in 1..Len(game.ants) :
            ~(game.ants[i].carryingFood /\ game.ants[i].carryingDirt))
  /\ [][SingleTick =>
          Cardinality(gameDirtCells(game)) - Cardinality(gameDirtCells(game'))
            <= Cardinality({i \in 1..Len(game.ants) : ~game.ants[i].carryingDirt})]_vars

\* ---------------------------------------------------------------------------
\* The sandbox taken apart ("unit"): a run makes one call, of updateCell for
\* an active particle, of updateAnt for an ant, or of simulateStep.  probe
\* keeps the call and the state it started from.

\* An ant met at any point of its cycle: walking, about to dig (the sand it
\* saw may have moved or been erased since), or loaded and about to drop.
UnitAnts(sand) ==
  UNION { { <<a>>, <<[a EXCEPT !.state = IF a.carrySand THEN "dropping" ELSE "digging"]>> } :
            a \in {ants[1] : ants \in AntChoices({}, sand) \ {<<>>}} }

\* Either sand alone, any part of it still active, or an ant among less sand.
\* The grid edge is the container (a Wall cell answers every test of this
\* file as a cell outside the grid does).
InitUnit ==
  /\ profile = "unit"
  /\ edits = 0
  /\ gameState = Unused /\ probe = Unused /\ game = Unused
  /\ \/ \E sand \in {s \in SUBSET AllCells : Cardinality(s) <= MaxSand + 1} :
          \E active \in SUBSET sand :
            state = [SandboxWith({}, sand, <<>>) EXCEPT !.activeSand = RowMajor(active, 0)]
     \/ \E sand \in {s \in SUBSET AllCells : Cardinality(s) < MaxSand} :
          \E ants \in UnitAnts(sand) : state = SandboxWith({}, sand, ants)

\* updateCell(state, x, y, ants) for a key of activeSand that holds Sand, as
\* the loop of simulateStep calls it.
UpdateCell ==
  /\ profile = "unit"
  /\ probe = Unused
  /\ \E k \in 1..Len(state.activeSand), goLeft \in BOOLEAN :
       LET x == state.activeSand[k][1]
           y == state.activeSand[k][2]
           u == updateCell([grid |-> state.grid, activeSand |-> state.activeSand],
                           x, y, state.ants, goLeft)
       IN  /\ state.grid[y][x] = "Sand"
           /\ state' = [state EXCEPT !.grid = u.grid, !.activeSand = u.activeSand]
           /\ probe' = [op |-> "updateCell", x |-> x, y |-> y, goLeft |-> goLeft,
                        before |-> state]
  /\ UNCHANGED <<profile, edits, gameState, game>>

\* updateAnt(state, ant) for one ant, as the ant loop of simulateStep calls it.
UpdateAnt ==
  /\ profile = "unit"
  /\ probe = Unused
  /\ \E i \in 1..Len(state.ants) : \E r \in RandomOutcomes(state.ants[i], state.marker) :
       LET u == updateAnt([grid |-> state.grid, activeSand |-> state.activeSand,
                           ant |-> state.ants[i]], state.marker, r)
       IN  /\ state' = [state EXCEPT !.grid = u.grid, !.activeSand = u.activeSand,
                                     !.ants[i] = u.ant]
           /\ probe' = [op |-> "updateAnt", i |-> i, r |-> r, before |-> state]
  /\ UNCHANGED <<profile, edits, gameState, game>>

\* A whole simulateStep, with the moves of its sand pass.
UnitSimulateStep ==
  /\ profile = "unit"
  /\ probe = Unused
  /\ \E t \in simulateStepMoves(state) :
       /\ state' = t.state
       /\ probe' = [op |-> "simulateStep", moves |-> t.moves, before |-> state]
  /\ UNCHANGED <<profile, edits, gameState, game>>

NextUnit == UpdateCell \/ UpdateAnt \/ UnitSimulateStep

SpecUnit == InitUnit /\ [][NextUnit]_vars

\* The cells whose type differs between two grids.
ChangedCells(g, h) == {c \in AllCells : g[c[2]][c[1]] # h[c[2]][c[1]]}

\* C21: updateCell on a Sand cell (x, y) whose cell below is Empty and free of
\* ants makes (x, y) Empty and (x, y + 1) Sand, changes no other cell, takes
\* (x, y) out of activeSand and puts (x, y + 1) in; the full-scan updateCell
\* makes the same two writes.  A simulateStep of a grid without walls and ants
\* whose only Sand cell has an Empty cell below it leaves exactly the cell
\* below as Sand.
C21_FallsStraightDown ==
  /\ (profile = "unit" /\ probe # Unused /\ probe.op = "updateCell"
        /\ probe.before.grid[probe.y][probe.x] = "Sand"
        /\ InGrid(probe.x, probe.y + 1)
        /\ probe.before.grid[probe.y + 1][probe.x] = "Empty"
        /\ ~isAntAt(probe.before.ants, probe.x, probe.y + 1))
     => /\ state.grid[probe.y][probe.x] = "Empty"
        /\ state.grid[probe.y + 1][probe.x] = "Sand"
        /\ ChangedCells(probe.before.grid, state.grid)
             = {<<probe.x, probe.y>>, <<probe.x, probe.y + 1>>}
        /\ ~SetHas(state.activeSand, sandKey(probe.x, probe.y))
        /\ SetHas(state.activeSand, sandKey(probe.x, probe.y + 1))
        /\ fullScanUpdateCell(probe.before.grid, probe.x, probe.y, probe.goLeft) = state.grid
  /\ (profile = "unit" /\ probe # Unused /\ probe.op = "simulateStep"
        /\ probe.before.ants = <<>>
        /\ \A c \in AllCells : probe.before.grid[c[2]][c[1]] # "Wall")
     => \A c \in AllCells :
          (SandCells(probe.before) = {c} /\ probe.before.activeSand = <<c>>
             /\ c[2] + 1 < WORLD_HEIGHT)
          => /\ SandCells(state) = {<<c[1], c[2] + 1>>}
             /\ fullScanSimulateStep(probe.before.grid, probe.before.tick)
                  = {state.grid}

\* The only particle of a grid without walls and ants was in the middle
\* column, one row above the floor, and a simulateStep has put it on the floor.
C21_Witness ==
  /\ profile = "unit" /\ probe # Unused /\ probe.op = "simulateStep"
  /\ probe.before.ants = <<>>
  /\ SandCells(probe.before) = {<<1, WORLD_HEIGHT - 2>>}
  /\ probe.before.activeSand = << <<1, WORLD_HEIGHT - 2>> >>
  /\ probe.before.grid[WORLD_HEIGHT - 1][1] = "Empty"
  /\ SandCells(state) = {<<1, WORLD_HEIGHT - 1>>}

\* A call of updateCell on a Sand cell has been observed.
CellCall ==
  /\ profile = "unit" /\ probe # Unused /\ probe.op = "updateCell"
  /\ probe.before.grid[probe.y][probe.x] = "Sand"

\* The automaton's emptiness at the moment of the call: in bounds, Empty and,
\* in the ant-aware profile, free of ants.
FreeAt(x, y) ==
  InGrid(x, y) /\ probe.before.grid[y][x] = "Empty" /\ ~isAntAt(probe.before.ants, x, y)

\* The two-cell rule for the side d of the observed particle.
LegalSide(d) == FreeAt(probe.x + d, probe.y + 1) /\ FreeAt(probe.x + d, probe.y)

\* The observed particle has gone from (x, y) to (x + d, y + 1) in grid g.
MovedTo(g, d) ==
  /\ InGrid(probe.x + d, probe.y + 1)
  /\ g[probe.y][probe.x] = "Empty"
  /\ probe.before.grid[probe.y + 1][probe.x + d] # "Sand"
  /\ g[probe.y + 1][probe.x + d] = "Sand"

\* C22: a particle moves diagonally to (x + d, y + 1) only when, at the moment
\* it is processed, the cell below it is not free (not Empty, or holding an
\* ant) and both (x + d, y + 1) and (x + d, y) are Empty and in bounds: it
\* never passes between two non-empty cells that touch at a corner.  The same
\* for the full-scan updateCell, which knows no ants.
C22_NoCornerTunnelling ==
  CellCall => \A d \in {-1, 1} :
    /\ MovedTo(state.grid, d)
         => /\ ~FreeAt(probe.x, probe.y + 1)
            /\ LegalSide(d)
            /\ isEmpty(probe.before.grid, probe.x + d, probe.y + 1)
            /\ isEmpty(probe.before.grid, probe.x + d, probe.y)
            /\ ~(~isEmpty(probe.before.grid, probe.x, probe.y + 1)
                   /\ ~isEmpty(probe.before.grid, probe.x + d, probe.y))
    /\ MovedTo(fullScanUpdateCell(probe.before.grid, probe.x, probe.y, probe.goLeft), d)
         => /\ ~isEmpty(probe.before.grid, probe.x, probe.y + 1)
            /\ isEmpty(probe.before.grid, probe.x + d, probe.y + 1)
            /\ isEmpty(probe.before.grid, probe.x + d, probe.y)

\* A particle resting on another particle has slid down to the right.
C22_Witness ==
  /\ CellCall
  /\ isDiggable(probe.before.grid, probe.x, probe.y + 1)
  /\ MovedTo(state.grid, 1)

\* C23: a processed particle whose cell below is blocked moves to the
\* preferred side when the two-cell rule holds there, to the other side when
\* it holds only there, and stays in place only when no move is legal.
C23_MovesWheneverLegal ==
  CellCall =>
    LET preferred == IF probe.goLeft THEN -1 ELSE 1
    IN  /\ state.grid = probe.before.grid
           => ~FreeAt(probe.x, probe.y + 1) /\ ~LegalSide(-1) /\ ~LegalSide(1)
        /\ (~FreeAt(probe.x, probe.y + 1) /\ LegalSide(preferred))
           => MovedTo(state.grid, preferred)
        /\ (~FreeAt(probe.x, probe.y + 1) /\ ~LegalSide(preferred) /\ LegalSide(-preferred))
           => MovedTo(state.grid, -preferred)

\* The draw preferred the left, the left was closed by the grid edge, and the
\* particle went down to the right.
C23_Witness ==
  /\ CellCall
  /\ probe.goLeft /\ probe.x = 0
  /\ MovedTo(state.grid, 1)

\* C24: updateCell takes the coordinate of a particle that did not move out
\* of activeSand only if none of (x, y+1), (x-1, y+1), (x+1, y+1) was in
\* activeSand at that moment; with one of them active the particle stays in.
C24_SettlesOnlyOverSettled ==
  (CellCall /\ state.grid = probe.before.grid
     /\ SetHas(probe.before.activeSand, sandKey(probe.x, probe.y)))
  => (~SetHas(state.activeSand, sandKey(probe.x, probe.y))
        => \A d \in {-1, 0, 1} :
             ~SetHas(probe.before.activeSand, sandKey(probe.x + d, probe.y + 1)))

\* A particle that could not move lies above an active particle that is
\* diagonally below it, and is still active after the call.
C24_Witness ==
  /\ CellCall /\ state.grid = probe.before.grid
  /\ ~SetHas(probe.before.activeSand, sandKey(probe.x, probe.y + 1))
  /\ SetHas(probe.before.activeSand, sandKey(probe.x + 1, probe.y + 1))
  /\ SetHas(state.activeSand, sandKey(probe.x, probe.y))

\* The cells that hold Sand after a step and did not before it.
NewSand(g, h) == {c \in AllCells : g[c[2]][c[1]] # "Sand" /\ h[c[2]][c[1]] = "Sand"}

\* C25: after a simulateStep activeSand holds every cell a particle moved
\* into during its sand pass and every cell an ant dropped sand into, as long
\* as the cell is still Sand; an edit between two steps (addSand, removeSand,
\* the marker) puts every cell it fills into activeSand and takes out no
\* coordinate whose cell is still Sand.
C25_MovedAndPlacedAreActive ==
  [][profile = "edit" =>
       /\ state'.tick = state.tick + 1 =>
            \A t \in simulateStepMoves(state) :
              t.state = state' =>
                /\ \A k \in 1..Len(t.moves) :
                     state'.grid[t.moves[k][2][2]][t.moves[k][2][1]] = "Sand"
                       => SetHas(state'.activeSand, t.moves[k][2])
                /\ \A c \in NewSand(state.grid, state'.grid) : SetHas(state'.activeSand, c)
       /\ edits' = edits + 1 =>
            /\ \A c \in NewSand(state.grid, state'.grid) : SetHas(state'.activeSand, c)
            /\ \A k \in 1..Len(state.activeSand) :
                 state'.grid[state.activeSand[k][2]][state.activeSand[k][1]] = "Sand"
                   => SetHas(state'.activeSand, state.activeSand[k])]_vars

\* The ant has dropped its load into the cell ahead of it, the user has
\* added sand, and at the tick boundary the dropped sand is still in activeSand.
C25_Witness ==
  /\ profile = "edit" /\ edits = 1
  /\ Len(state.ants) = 1 /\ ~state.ants[1].carrySand
  /\ state.grid[0][1] = "Sand"
  /\ SetHas(state.activeSand, sandKey(1, 0))

\* The sweep of the full-scan simulateStep with its moves; T is a set of
\* [grid, moves], each move <<from, to>>.
RECURSIVE fullScanSweepMoves(_, _, _)
fullScanSweepMoves(T, order, i) ==
  IF i > Len(order) THEN T
  ELSE fullScanSweepMoves(
         UNION { { [grid |-> g,
                    moves |-> t.moves \o MovesOf([grid |-> t.grid], [grid |-> g], order[i])] :
                     g \in {fullScanUpdateCell(t.grid, order[i][1], order[i][2], gl) :
                              gl \in BOOLEAN} } :
                 t \in T },
         order, i + 1)

\* Every move goes one row down and at most one column aside, and no move
\* starts where an earlier move of the same pass ended.
MovedOnceEach(moves) ==
  /\ \A k \in 1..Len(moves) :
       /\ moves[k][2][2] = moves[k][1][2] + 1
       /\ Abs(moves[k][2][1] - moves[k][1][1]) <= 1
  /\ \A j \in 1..Len(moves) : \A k \in (j + 1)..Len(moves) : moves[k][1] # moves[j][2]

\* C26: one simulateStep moves each particle at most once, so no particle
\* ends the step more than one row below or one column aside of where it
\* began: in the active-set profile (a loop over a snapshot of activeSand) and
\* in the full-scan profile (rows swept from the bottom up) run on the same grid.
C26_EachParticleMovesOnce ==
  (profile = "unit" /\ probe # Unused /\ probe.op = "simulateStep")
  => /\ MovedOnceEach(probe.moves)
     /\ \A t \in fullScanSweepMoves({[grid |-> probe.before.grid, moves |-> <<>>]},
                                    SweepOrder(probe.before.tick + 1), 1) :
          MovedOnceEach(t.moves)

\* Two particles stacked in one column have both moved in the same step: the
\* upper one slid aside before the lower one fell.
C26_Witness ==
  /\ profile = "unit" /\ probe # Unused /\ probe.op = "simulateStep"
  /\ Len(probe.moves) = 2
  /\ probe.moves[1][1][1] = probe.moves[2][1][1]
  /\ probe.moves[1][1][2] + 1 = probe.moves[2][1][2]
  /\ probe.moves[2][2][1] = probe.moves[2][1][1]

\* The sum of the decayed values of one field over a set of cell indices.
RECURSIVE DecayedSum(_, _, _, _)
DecayedSum(world, cells, field, dt) ==
  IF cells = {} THEN 0
  ELSE LET i == CHOOSE j \in cells : TRUE
       IN  decayed(world.cells[i][field], dt) + DecayedSum(world, cells \ {i}, field, dt)

\* v + (mean - v) * DIFFUSION_FACTOR * dt for cell i, clamped to [0, 1]: v the
\* decayed value of the cell, mean the mean of the decayed values of the cell
\* and of its orthogonal neighbours inside the grid, all taken from one world.
DiffusedFrom(world, i, field, dt) ==
  LET group == {j \in 0..(WORLD_WIDTH * WORLD_HEIGHT - 1) :
                  \/ j = i
                  \/ (j \div WORLD_WIDTH = i \div WORLD_WIDTH /\ Abs(j - i) = 1)
                  \/ Abs(j - i) = WORLD_WIDTH}
      count == Cardinality(group)
      v == decayed(world.cells[i][field], dt)
      sum == DecayedSum(world, group, field, dt)
      den == count * DIFFUSION_FACTOR[2] * dt[2]
  IN  Max(0, Min(ONE, fround(v * den + (sum - count * v) * DIFFUSION_FACTOR[1] * dt[1], den)))

\* C27: the diffusion pass of updatePheromones is double-buffered: after the
\* call every cell holds v + (mean - v) * DIFFUSION_FACTOR * dt clamped to
\* [0, 1], v and mean computed from the values all cells had after the decay
\* and before any diffused value was written; the order of the visit does not
\* enter the result.
C27_DiffusionDoubleBuffered ==
  [][(profile = "pher" /\ probe' # Unused) =>
       \A i \in 0..(WORLD_WIDTH * WORLD_HEIGHT - 1) :
         \A f \in {"pheromoneFood", "pheromoneHome"} :
           gameState'.world.cells[i][f] = DiffusedFrom(gameState.world, i, f, probe'.dt)]_vars

\* A call with dt > 0 has left the field positive in a cell and in the cell
\* visited just before it, which a single-buffered pass would have fed back.
C27_Witness ==
  /\ profile = "pher" /\ probe # Unused /\ probe.dt[1] > 0
  /\ gameState.world.cells[WORLD_WIDTH + 1].pheromoneFood > 0
  /\ gameState.world.cells[WORLD_WIDTH].pheromoneFood > 0
  /\ gameState.world.cells[1].pheromoneFood > 0

\* A call of updateAnt has been observed for an ant in state st that was
\* attached to a surface (an ant attached to nothing just falls).
AntCall(st) ==
  /\ profile = "unit" /\ probe # Unused /\ probe.op = "updateAnt"
  /\ probe.before.ants[probe.i].state = st
  /\ LET x == CellX(probe.before.ants[probe.i])
         y == CellY(probe.before.ants[probe.i])
     IN  \E p \in { <<x, y + 1>>, <<x, y - 1>>, <<x - 1, y>>, <<x + 1, y>> } :
           ~InGrid(p[1], p[2]) \/ probe.before.grid[p[2]][p[1]] \in {"Sand", "Wall"}

\* The cell p was in bounds and of the given type when the call began.
Held(p, type) == InGrid(p[1], p[2]) /\ probe.before.grid[p[2]][p[1]] = type

\* C28: dropBehavior of a loaded ant at (x, y) facing d puts the sand into the
\* first Empty in-bounds cell of forward (x+d, y), above (x, y-1), behind
\* (x-d, y): exactly that cell changes, to Sand, carrySand becomes false and
\* state 'walking'.  With an Empty cell ahead, one attempt fills the cell ahead.
C28_DropsIntoFirstEmpty ==
  (AntCall("dropping") /\ probe.before.ants[probe.i].carrySand) =>
    LET a == probe.before.ants[probe.i]
        order == << <<CellX(a) + a.direction, CellY(a)>>,
                    <<CellX(a), CellY(a) - 1>>,
                    <<CellX(a) - a.direction, CellY(a)>> >>
    IN  \A k \in 1..3 :
          (Held(order[k], "Empty") /\ \A j \in 1..(k - 1) : ~Held(order[j], "Empty"))
          => /\ ChangedCells(probe.before.grid, state.grid) = {order[k]}
             /\ state.grid[order[k][2]][order[k][1]] = "Sand"
             /\ ~state.ants[probe.i].carrySand
             /\ state.ants[probe.i].state = "walking"

\* The cell ahead was not Empty, the cell above was, and the sand went there.
C28_Witness ==
  /\ AntCall("dropping")
  /\ LET a == probe.before.ants[probe.i]
     IN  /\ ~Held(<<CellX(a) + a.direction, CellY(a)>>, "Empty")
         /\ Held(<<CellX(a), CellY(a) - 1>>, "Empty")
         /\ state.grid[CellY(a) - 1][CellX(a)] = "Sand"
  /\ ~state.ants[probe.i].carrySand

\* C29: a dig attempt (digCooldown = 0) that finds no Sand among front,
\* front-below and below, and a drop attempt that finds no Empty cell among
\* forward, above and behind, leave the grid, activeSand and carrySand as they
\* were and put the ant back into state 'walking'.
C29_FailedAttemptsChangeNothing ==
  LET a == probe.before.ants[probe.i]
      x == CellX(a)
      y == CellY(a)
      d == a.direction
      same == /\ state.grid = probe.before.grid
              /\ state.activeSand = probe.before.activeSand
              /\ state.ants[probe.i].carrySand = a.carrySand
              /\ state.ants[probe.i].state = "walking"
  IN  /\ (AntCall("digging") /\ a.digCooldown = 0
            /\ \A p \in { <<x + d, y>>, <<x + d, y + 1>>, <<x, y + 1>> } : ~Held(p, "Sand"))
         => same
      /\ (AntCall("dropping")
            /\ \A p \in { <<x + d, y>>, <<x, y - 1>>, <<x - d, y>> } : ~Held(p, "Empty"))
         => same

\* A loaded ant in the top corner, facing the edge, sand behind it, tried to
\* drop: it is walking again and still loaded.
C29_Witness ==
  /\ AntCall("dropping")
  /\ probe.before.ants[probe.i].carrySand
  /\ CellY(probe.before.ants[probe.i]) = 0
  /\ state.grid = probe.before.grid
  /\ state.ants[probe.i].carrySand
  /\ state.ants[probe.i].state = "walking"

\* C30: the row of a walking ant decreases in a tick only if a solid cell
\* blocks it laterally and some height h in 1..maxClimbHeight has both its own
\* column and the destination column Empty at row y - h with no solid cell in
\* its own column at rows y-1..y-(h-1); it then rises exactly one cell.  An
\* ant blocked laterally with no such height does not rise: it turns around
\* or starts digging.
C30_RisesOnlyByClimbing ==
  AntCall("walking") =>
    LET a == probe.before.ants[probe.i]
        b == state.ants[probe.i]
        x == CellX(a)
        y == CellY(a)
        nextX == x + a.direction
        blocked == ~InGrid(nextX, y) \/ probe.before.grid[y][nextX] \in {"Sand", "Wall"}
        solidOwn(j) == ~InGrid(x, y - j) \/ probe.before.grid[y - j][x] \in {"Sand", "Wall"}
        height == \E h \in 1..maxClimbHeight :
                    /\ Held(<<x, y - h>>, "Empty")
                    /\ Held(<<nextX, y - h>>, "Empty")
                    /\ \A j \in 1..(h - 1) : ~solidOwn(j)
    IN  /\ CellY(b) < y => blocked /\ height /\ b.y = a.y - YU
        /\ (blocked /\ height) => b.y = a.y - YU
        /\ (blocked /\ ~height)
             => /\ CellY(b) >= y
                /\ (b.direction = -a.direction \/ b.state = "digging")

\* ---------------------------------------------------------------------------
\* The sandbox with a marker set ("marked"): the user has placed the marker,
\* or not, before the run; the simulation is then left alone.

\* Marker positions: none, the middle of the grid, left of it and right of it.
Markers ==
  {NullMarker} \cup
  { [null |-> FALSE, x |-> p[1], y |-> p[2]] :
      p \in { <<1, 1>>, <<-3, 0>>, <<WORLD_WIDTH + 2, WORLD_HEIGHT>> } }

InitMarked ==
  /\ profile = "marked"
  /\ edits = 0
  /\ gameState = Unused /\ probe = Unused /\ game = Unused
  /\ \E walls \in WallLayouts : \E sand \in {s \in SandChoices(walls) : Cardinality(s) < MaxSand} :
       \E ants \in AntChoices(walls, sand) \ {<<>>} : \E marker \in Markers :
         state = [SandboxWith(walls, sand, ants) EXCEPT !.marker = marker]

MarkedSimulateStep ==
  /\ profile = "marked"
  /\ state.tick < MaxTick
  /\ state' \in simulateStep(state)
  /\ UNCHANGED <<profile, edits, simVars, game>>

SpecMarked == InitMarked /\ [][MarkedSimulateStep]_vars

\* C31: no simulateStep changes state.marker, whether it is null, a cell of
\* the grid or a point outside the grid.
C31_MarkerReadOnly ==
  [][profile = "marked" => state'.marker = state.marker]_vars

\* An ant walking to the right has been turned to the left by a marker placed
\* left of the grid, and the marker is still there.
C31_Witness ==
  /\ profile = "marked" /\ state.tick = MaxTick
  /\ ~state.marker.null /\ state.marker.x < 0
  /\ state.ants[1].direction = -1
  /\ state.ants[1].x % XU = XU - 1 - MaxTick * ANT_WALK_SPEED

\* C38: Wall cells are immutable: no simulateStep, addSand, removeSand or
\* marker click turns a Wall cell into anything else or any cell into Wall.
C38_WallsImmutable ==
  [][profile = "edit" =>
       \A c \in AllCells : (state.grid[c[2]][c[1]] = "Wall") <=> (state'.grid[c[2]][c[1]] = "Wall")]_vars

\* The user has added sand with the disc centred on a Wall cell: the sand
\* lies on the wall row, which is intact.
C38_Witness ==
  /\ profile = "edit" /\ edits = 1
  /\ \A x \in 0..(WORLD_WIDTH - 1) : state.grid[WORLD_HEIGHT - 1][x] = "Wall"
  /\ state.grid[WORLD_HEIGHT - 2][0] = "Sand"
  /\ state.grid[WORLD_HEIGHT - 2][WORLD_WIDTH - 1] = "Empty"
  /\ state.tick = 0

\* C39: an ant whose cell is Empty before its updateAnt is in an Empty cell
\* after it, whatever the move (fall, walk forward, walk down, climb, ceiling
\* walk, wall walk) and whatever its position inside the cell.  (A dig or a
\* drop leaves the ant where it is and never writes the ant's own cell, so
\* both cells are read in the grid the step leaves.)
C39_AntsStayOutOfSolid ==
  (profile = "pass" /\ probe # Unused) =>
    \A i \in 1..Len(state.ants) :
      isEmpty(state.grid, CellX(probe.before.ants[i]), CellY(probe.before.ants[i]))
        => isEmpty(state.grid, CellX(state.ants[i]), CellY(state.ants[i]))

\* ---------------------------------------------------------------------------
\* State-machine profile: what an ant holds and where it stands.

\* C32: an ant whose mode is carryingUp or carryingSurface holds dirt, and
\* hasDirt is true exactly when carrying = 'dirt'.
C32_CarriersHoldDirt ==
  profile = "sm" =>
    \A i \in 1..Len(gameState.ants) :
      LET ant == gameState.ants[i]
      IN  /\ ant.mode \in {"carryingUp", "carryingSurface"} =>
                (ant.hasDirt /\ ant.carrying = "dirt")
          /\ ant.hasDirt <=> (ant.carrying = "dirt")

\* C33: at every tick boundary an ant that is diggingDown or carryingUp is at
\* the centre of its shaft, and an ant that is idleSurface or carryingSurface
\* is on the surface row.
C33_ShaftCentredSurfaceRow ==
  profile = "sm" =>
    \A i \in 1..Len(gameState.ants) :
      LET ant == gameState.ants[i]
      IN  /\ ant.mode \in {"diggingDown", "carryingUp"} =>
                ant.x = ant.homeColumn * SU + SU \div 2
          /\ ant.mode \in {"idleSurface", "carryingSurface"} =>
                ant.y = SOIL_START_Y * SU - SU \div 2

\* ---------------------------------------------------------------------------
\* The sim profiles in a world that holds a stone cell (Cell.type is
\* 'dirt' | 'air' | 'stone'; a saved game is loaded with the cells it has).

\* The initial world with one cell of the soil turned to stone.
StoneWorlds ==
  {w \in WorldChoices : \E i \in DOMAIN w.cells :
     i \div WORLD_WIDTH >= SOIL_START_Y /\ w.cells[i].type = "stone"}

InitStone ==
  /\ state = Unused /\ edits = 0 /\ game = Unused
  /\ probe = Unused
  /\ \E world \in StoneWorlds, col \in 0..(WORLD_WIDTH - 1), simSpeed \in 0..1 :
       \/ /\ profile = "sm"
          /\ \E mode \in {"idleSurface", "diggingDown"} :
               gameState = GameStateWith(world,
                             <<[createSurfaceAnt(col * SU + SU \div 2) EXCEPT !.mode = mode]>>,
                             simSpeed)
       \/ /\ profile = "physics"
          /\ gameState = PhysicsStateWith(world,
                           <<createPhysicsAnt(col * SU + SU \div 2, SOIL_START_Y * SU - SU \div 2,
                                              <<0, 0>>, "none")>>,
                           <<>>, simSpeed)

SpecStone == InitStone /\ [][NextSim]_vars

\* A step that leaves stone alone and gives an ant dirt only for a dirt cell.
GranularStep ==
  /\ \A i \in DOMAIN gameState.world.cells :
       gameState.world.cells[i].type = "stone" => gameState'.world.cells[i].type = "stone"
  /\ \A a \in 1..Len(gameState.ants) :
       (gameState.ants[a].carrying # "dirt" /\ gameState'.ants[a].carrying = "dirt")
         => \E i \in DOMAIN gameState.world.cells :
              /\ gameState.world.cells[i].type = "dirt"
              /\ gameState'.world.cells[i].type = "air"

FieldLevels == {0, ONE \div 10, ONE \div 10 + 1, ONE}

\* The middle cell, its four neighbours and the top left corner.
FieldCells == {<<1, 1>>, <<2, 1>>, <<0, 1>>, <<1, 2>>, <<1, 0>>, <<0, 0>>}

FieldWorld(f) ==
  [createInitialWorld EXCEPT !.cells = [i \in DOMAIN @ |->
     IF <<i % WORLD_WIDTH, i \div WORLD_WIDTH>> \in FieldCells
     THEN [@[i] EXCEPT !.pheromoneFood = f[<<i % WORLD_WIDTH, i \div WORLD_WIDTH>>]]
     ELSE @[i]]]

InitGradient ==
  /\ profile = "gradient"
  /\ state = Unused /\ edits = 0 /\ game = Unused
  /\ probe = Unused
  /\ \E f \in [FieldCells -> FieldLevels], c \in {<<1, 1>>, <<0, 0>>} :
       gameState = PhysicsStateWith(FieldWorld(f),
                     <<createPhysicsAnt(c[1] * SU + SU \div 2, c[2] * SU + SU \div 2,
                                        <<0, 0>>, "none")>>,
                     <<[x |-> WORLD_WIDTH * SU - SU \div 2, y |-> WORLD_HEIGHT * SU - SU \div 2]>>,
                     1)

SeekFood ==
  /\ profile = "gradient"
  /\ probe = Unused
  /\ \E dt \in FrameTimes \ {<<0, 1>>} :
       probe' = [op |-> "seekFood", dt |-> dt,
                 direction |-> followPheromoneGradient(gameState.world,
                                 gameState.ants[1].x \div SU, gameState.ants[1].y \div SU, "food"),
                 ant |-> seekFood(gameState.ants[1], gameState.foodItems, dt, gameState.world)]
  /\ UNCHANGED <<profile, state, edits, gameState, game>>

SpecGradient == InitGradient /\ [][SeekFood]_vars

\* The food field of the cell at offset d from the ant's cell, -1 outside the world.
FieldAt(d) ==
  LET cell == getCell(gameState.world, gameState.ants[1].x \div SU + d.dx,
                      gameState.ants[1].y \div SU + d.dy)
  IN  IF cell = Null THEN -1 ELSE cell.pheromoneFood

Neighbours == {gradientOffsets[k] : k \in 1..Len(gradientOffsets)}

\* A neighbour the ant may follow: in bounds, maximal among the neighbours,
\* above the threshold and above the ant's own cell.
SteepestAscent(d) ==
  /\ FieldAt(d) >= 0
  /\ \A e \in Neighbours : FieldAt(e) <= FieldAt(d)
  /\ 10 * FieldAt(d) > ONE
  /\ FieldAt(d) > FieldAt([dx |-> 0, dy |-> 0])

\* C35: followPheromoneGradient returns the offset of an in-bounds orthogonal
\* neighbour whose field value is maximal among the four, exceeds the
\* threshold and is higher than the value of the ant's own cell, and null
\* when there is none; seekFood steers along the line to the food (on both
\* axes here) only when it returned null, and along the offset otherwise.
C35_FollowsSteepestAscent ==
  (profile = "gradient" /\ probe # Unused) =>
    /\ IF \E d \in Neighbours : SteepestAscent(d)
       THEN probe.direction \in Neighbours /\ SteepestAscent(probe.direction)
       ELSE probe.direction = Null
    /\ IF probe.direction = Null
       THEN probe.ant.vx > 0 /\ probe.ant.vy > 0
       ELSE /\ probe.ant.vx = probe.direction.dx * Impulse(3 * WANDER_FORCE, 2, probe.dt)
            /\ probe.ant.vy = probe.direction.dy * Impulse(3 * WANDER_FORCE, 2, probe.dt)

\* ---------------------------------------------------------------------------
\* One updateAnt of the game profile ("move"): an ant in the starting tunnel,
\* above it, or in a cell dug out at the left edge of the world, in any of
\* the states that move it, at rest or falling.

MoveWorlds ==
  { gameCreateInitialGameState(0, 0, 1).world,
    digAt(gameCreateInitialGameState(0, 0, 1), 0, surfaceY * GU).world }

MoveAnts(world) ==
  { [gameCreateAnt(0, x, y, direction) EXCEPT !.state = st, !.vy = vy,
                                              !.carryingFood = (st = "CarryingFood"),
                                              !.carryingDirt = (st = "CarryingDirt")] :
      x \in {GU \div 2, (GAME_WIDTH \div 2) * GU - GU, (GAME_WIDTH \div 2) * GU + GU \div 2},
      y \in {GU \div 2, (surfaceY - 1) * GU + GU \div 2, surfaceY * GU + GU \div 2,
             (surfaceY + TUNNEL_DEPTH - 1) * GU + GU \div 2},
      direction \in {-1, 1},
      st \in {"Idle", "Walking", "Digging", "CarryingFood", "CarryingDirt"},
      vy \in {0, GU + GU \div 2} }

InitMove ==
  /\ profile = "move"
  /\ state = Unused /\ edits = 0 /\ gameState = Unused
  /\ probe = Unused
  /\ \E world \in MoveWorlds :
       \E ant \in {a \in MoveAnts(world) : ~gameIsSolid(world, a.x, a.y)} :
         game = [gameCreateInitialGameState(0, 0, 1) EXCEPT !.world = world, !.ants = <<ant>>]

UpdateGameAnt ==
  /\ profile = "move"
  /\ probe = Unused
  /\ \E r \in gameRandomOutcomes(game.ants[1]) :
       /\ game' = gameUpdateAnt(game, 1, r)
       /\ probe' = [op |-> "updateAnt", before |-> game, steered |-> gameSteer(game, 1, r)]
  /\ UNCHANGED <<profile, state, edits, gameState>>

SpecMove == InitMove /\ [][UpdateGameAnt]_vars

\* The move the switch has asked for, and what the collision tests make of it.
MoveNewX == probe.steered.ant.x + probe.steered.ant.vx
MoveNewY == probe.steered.ant.y + probe.steered.ant.vy
MoveXFree == ~gameIsSolid(probe.steered.game.world, MoveNewX, probe.steered.ant.y)
MoveResolvedX == IF MoveXFree THEN MoveNewX ELSE probe.steered.ant.x
MoveYFree == ~gameIsSolid(probe.steered.game.world, MoveResolvedX, MoveNewY)
MoveResolvedY == IF MoveYFree THEN MoveNewY ELSE probe.steered.ant.y

\* C36: the X move is applied iff the cell at (newX, y) is not solid, then
\* the Y move iff the cell at (resolved x, newY) is not solid (else vy = 0),
\* whatever happened to the X move; the horizontal speed is 0 after the tick;
\* an ant that started the tick in a non-solid cell is not in a Dirt or Sand
\* cell at its end.
C36_AxisByAxis ==
  (profile = "move" /\ probe # Unused) =>
    /\ game.ants[1].x = gameKeepInBounds([probe.steered.ant EXCEPT !.x = MoveResolvedX]).x
    /\ game.ants[1].x \div GU = MoveResolvedX \div GU
    /\ game.ants[1].y \div GU = MoveResolvedY \div GU
    /\ game.ants[1].y = gameKeepInBounds([probe.steered.ant EXCEPT !.y = MoveResolvedY]).y
    /\ ~MoveYFree => game.ants[1].vy = 0
    /\ MoveYFree => game.ants[1].vy = probe.steered.ant.vy
    /\ game.ants[1].vx = 0
    /\ ~gameIsSolid(probe.before.world, probe.before.ants[1].x, probe.before.ants[1].y)
         => ~gameIsSolid(game.world, game.ants[1].x, game.ants[1].y)

\* An ant carrying food has climbed out of a dug cell beside Dirt: its X move
\* was blocked by the Dirt, its Y move was applied.
C36_Witness ==
  /\ profile = "move" /\ probe # Unused
  /\ probe.steered.ant.vx # 0 /\ probe.steered.ant.vy # 0
  /\ ~MoveXFree /\ MoveYFree
  /\ game.ants[1].x = probe.before.ants[1].x
  /\ game.ants[1].y = probe.before.ants[1].y + probe.steered.ant.vy

\* ---------------------------------------------------------------------------
\* The game profile around a spawn tick ("spawn"): a colony of one ant, of
\* one ant less than the limit or at the limit, a few ticks before a multiple
\* of SPAWN_INTERVAL, with just enough food stored for a spawn or not.  The
\* ants are at the bottom of the starting tunnel, eating for longer than the
\* ticks looked at (the code's THINK_TIME is 30 ticks).

\* How many ticks before and after the spawn tick are looked at.
SpawnWindow == 2

RestingAnt(id) ==
  [gameCreateAnt(id, (GAME_WIDTH \div 2) * GU + GU \div 2,
                 (surfaceY + TUNNEL_DEPTH - 1) * GU + GU \div 2, 1)
     EXCEPT !.state = "Eating", !.thinkCooldown = 2 * SpawnWindow + 4, !.grounded = TRUE]

InitSpawn ==
  /\ profile = "spawn"
  /\ state = Unused /\ edits = 0 /\ gameState = Unused
  /\ probe = Unused
  /\ \E n \in {1, MAX_ANTS - 1, MAX_ANTS}, foodStored \in {5, 6},
        tick \in (SPAWN_INTERVAL - SpawnWindow)..(SPAWN_INTERVAL - 1) :
       game = [gameCreateInitialGameState(0, 0, 1) EXCEPT
                 !.ants = [i \in 1..n |-> RestingAnt(i - 1)],
                 !.colony = [foodStored |-> foodStored, population |-> n],
                 !.tick = tick]

SpawnSimulateStep ==
  /\ profile = "spawn"
  /\ game.tick < SPAWN_INTERVAL + SpawnWindow
  /\ \E paused \in BOOLEAN, speed \in SpeedChoices :
       game' \in gameSimulateStep([game EXCEPT !.paused = paused, !.speed = speed])
  /\ UNCHANGED <<profile, state, edits, probe, gameState>>

SpecSpawn == InitSpawn /\ [][SpawnSimulateStep]_vars

\* The colony counts its ants and stays within the limit.
PopulationCounted(g) ==
  Len(g.ants) <= MAX_ANTS /\ g.colony.population = Len(g.ants)

\* What one simulateStep, called with paused and speed as game' has them,
\* does to the ant list and to tick.
PopulationStep ==
  /\ PopulationCounted(game) /\ PopulationCounted(game')
  /\ Len(game'.ants) >= Len(game.ants)
  /\ \A i \in 1..Len(game.ants) : game'.ants[i].id = game.ants[i].id
  /\ Len(game'.ants) - Len(game.ants) <=
       Cardinality({tick \in (game.tick + 1)..game'.tick :
                      /\ tick % SPAWN_INTERVAL = 0
                      /\ game'.colony.foodStored > 5
                      /\ Len(game.ants) < MAX_ANTS})
  /\ game'.tick = game.tick + (IF game'.paused THEN 0 ELSE game'.speed)

\* C37: ants are never removed; the ant list grows by at most one per tick and
\* only at a tick with tick % 500 = 0, colony.foodStored > 5 and fewer than 20
\* ants; ants.length <= 20 and colony.population = ants.length in every
\* state; a simulateStep that is not paused advances tick by its speed.
C37_PopulationGrowsBySpawn == [][(profile = "spawn") => PopulationStep]_vars

\* The twentieth ant has been spawned at tick 500, and the next simulateStep
\* has left the colony at twenty.
C37_Witness ==
  /\ profile = "spawn"
  /\ game.tick > SPAWN_INTERVAL
  /\ Len(game.ants) = MAX_ANTS
  /\ game.ants[MAX_ANTS].id = MAX_ANTS - 1
  /\ game.ants[MAX_ANTS].state # "Eating"
  /\ game.colony.population = MAX_ANTS

\* ---------------------------------------------------------------------------
\* The state machine left running ("cycle"): one idle ant on the surface, the
\* simulation at normal speed, and a frame time fixed for the run (kept in
\* probe).  The host calls simulateStep on every animation frame.

InitCycle ==
  /\ profile = "cycle"
  /\ state = Unused /\ edits = 0 /\ game = Unused
  /\ \E dt \in FrameTimes \ {<<0, 1>>} : probe = [op |-> "frame", dt |-> dt]
  /\ \E col \in 0..(WORLD_WIDTH - 1) :
       gameState = GameStateWith(createInitialWorld, <<createSurfaceAnt(col * SU + SU \div 2)>>, 1)

CycleStep ==
  /\ profile = "cycle"
  /\ gameState' \in smSimulateStep(gameState, probe.dt)
  /\ UNCHANGED <<profile, state, edits, probe, game>>

SpecCycle == InitCycle /\ [][CycleStep]_vars /\ WF_vars(CycleStep)

ModeChanges ==
  { <<"idleSurface", "diggingDown">>, <<"diggingDown", "carryingUp">>,
    <<"carryingUp", "carryingSurface">>, <<"carryingSurface", "diggingDown">> }

\* What one tick may do to the ant's mode and homeColumn.
ModeStep ==
  LET before == gameState.ants[1]
      after == gameState'.ants[1]
  IN  /\ after.mode = before.mode \/ <<before.mode, after.mode>> \in ModeChanges
      /\ after.homeColumn # before.homeColumn =>
           (before.mode = "idleSurface" /\ after.mode = "diggingDown")

InMode(mode) == profile = "cycle" /\ gameState.ants[1].mode = mode

\* C40: the mode changes only along idleSurface -> diggingDown -> carryingUp
\* -> carryingSurface -> diggingDown (so idleSurface is never re-entered),
\* homeColumn changes only on the step from idleSurface to diggingDown, a
\* diggingDown ant eventually is carryingUp and a carryingUp ant eventually
\* is carryingSurface, for a fixed dt > 0.
C40_ModeCycle ==
  /\ [][(profile = "cycle") => ModeStep]_vars
  /\ InMode("diggingDown") ~> InMode("carryingUp")
  /\ InMode("carryingUp") ~> InMode("carryingSurface")

\* The ant has been round the cycle: it has dropped dirt on the surface and
\* is on its way down the shaft again.
C40_Witness ==
  /\ InMode("diggingDown")
  /\ \E x \in 0..(WORLD_WIDTH - 1) : getCell(gameState.world, x, SOIL_START_Y - 1).type = "dirt"
  /\ getCell(gameState.world, gameState.ants[1].homeColumn, SOIL_START_Y).type = "air"
  /\ gameState.ants[1].y > SOIL_START_Y * SU

====
